---- MODULE Spec2Model ----
(***************************************************************************)
(* A model of the responses-proxy request handler (create_response), its   *)
(* event sequencer, its streaming orchestrator, the XML tool-call salvager *)
(* and the request translator.                                             *)
(*                                                                         *)
(* Strings are sequences of one-character strings, Option<T> values are    *)
(* sequences of length 0 (None) or 1 (Some(x)).                            *)
(***************************************************************************)
EXTENDS Integers, Sequences, FiniteSets, TLC

\* ------------------------------------------------------------------ bounds

\* Upstream payloads the orchestrator processes in one response, at most.
MaxPayloads == 2

\* Tools in one request given to the translator, at most.
MaxTools == 4

\* ------------------------------------------------------- Option and strings

None == << >>
Some(x) == << x >>
IsSome(o) == Len(o) = 1
Unwrap(o) == o[1]
UnwrapOr(o, d) == IF IsSome(o) THEN o[1] ELSE d

MinOf(S) == CHOOSE x \in S : \A y \in S : x <= y

\* F applied to the value of v, v being evaluated once
Bind(v, F(_)) == CHOOSE r \in {F(x) : x \in {v}} : TRUE

\* s[a..b) with 1-based a, exclusive b, as Rust's &s[a-1..b-1]
Slice(s, a, b) == [i \in 1..(b - a) |-> s[a + i - 1]]
From(s, a) == Slice(s, a, Len(s) + 1)

MatchAt(s, i, pat) ==
    /\ i + Len(pat) - 1 <= Len(s)
    /\ \A j \in 1..Len(pat) : s[i + j - 1] = pat[j]

\* str::find on s[from..]: the position (1-based, absolute) of the first
\* occurrence of pat at or after from, 0 when there is none
Find(s, from, pat) ==
    LET hits == {i \in from..(Len(s) - Len(pat) + 1) : MatchAt(s, i, pat)}
    IN IF hits = {} THEN 0 ELSE MinOf(hits)

Contains(s, pat) == Find(s, 1, pat) # 0

Whitespace == {" ", "\n", "\t", "\r"}

\* str::trim
Trim(s) ==
    LET keep == {i \in 1..Len(s) : s[i] \notin Whitespace}
    IN IF keep = {} THEN << >>
       ELSE Slice(s, MinOf(keep), (CHOOSE x \in keep : \A y \in keep : y <= x) + 1)

\* ------------------------------------------------------------ the vocabulary

TAG_FUNCTION == <<"<","f","u","n","c","t","i","o","n","=">>
TAG_FUNCTION_END == <<"<","/","f","u","n","c","t","i","o","n",">">>
TAG_TOOL_CALL == <<"<","t","o","o","l","_","c","a","l","l">>
TAG_TOOL_CALL_END == <<"<","/","t","o","o","l","_","c","a","l","l",">">>
TAG_PARAMETER == <<"<","p","a","r","a","m","e","t","e","r","=">>
TAG_PARAMETER_END == <<"<","/","p","a","r","a","m","e","t","e","r",">">>

\* ------------------------------------------------------ XML tool-call salvager

UpperCase == <<"A","B","C","D","E","F","G","H","I","J","K","L","M","N","O","P","Q","R","S","T","U","V","W","X","Y","Z">>
LowerCase == <<"a","b","c","d","e","f","g","h","i","j","k","l","m","n","o","p","q","r","s","t","u","v","w","x","y","z">>

\* str::to_ascii_lowercase
ToAsciiLowercase(s) ==
    [i \in 1..Len(s) |->
        IF \E k \in 1..26 : UpperCase[k] = s[i]
        THEN LowerCase[CHOOSE k \in 1..26 : UpperCase[k] = s[i]]
        ELSE s[i]]

\* a detection that compares the text as it is
contains_xml_tool_call_AsWritten(text) ==
    \/ Contains(text, TAG_FUNCTION)
    \/ Contains(text, TAG_FUNCTION_END)
    \/ Contains(text, TAG_TOOL_CALL)
    \/ Contains(text, TAG_TOOL_CALL_END)
    \/ Contains(text, TAG_PARAMETER)

contains_xml_tool_call(text) ==
    LET normalized == ToAsciiLowercase(text)
    IN \/ Contains(normalized, TAG_FUNCTION)
       \/ Contains(normalized, TAG_FUNCTION_END)
       \/ Contains(normalized, TAG_TOOL_CALL)
       \/ Contains(normalized, TAG_TOOL_CALL_END)
       \/ Contains(normalized, TAG_PARAMETER)

\* serde_json::Map::insert on a map kept as a sequence of <<key, value>> pairs
\* sorted by key (BTreeMap): an existing key keeps its place and gets the
\* new value
CharRank(c) ==
    IF \E k \in 1..26 : LowerCase[k] = c
    THEN 100 + (CHOOSE k \in 1..26 : LowerCase[k] = c)
    ELSE IF \E k \in 1..26 : UpperCase[k] = c
    THEN 60 + (CHOOSE k \in 1..26 : UpperCase[k] = c)
    ELSE IF c = "_" THEN 95 ELSE 30

RECURSIVE StrLess(_, _)
StrLess(a, b) ==
    IF b = << >> THEN FALSE
    ELSE IF a = << >> THEN TRUE
    ELSE IF CharRank(a[1]) # CharRank(b[1]) THEN CharRank(a[1]) < CharRank(b[1])
    ELSE StrLess(Tail(a), Tail(b))

MapInsert(m, k, v) ==
    IF \E i \in 1..Len(m) : m[i][1] = k
    THEN [i \in 1..Len(m) |-> IF m[i][1] = k THEN <<k, v>> ELSE m[i]]
    ELSE LET before == SelectSeq(m, LAMBDA e : StrLess(e[1], k))
             after == SelectSeq(m, LAMBDA e : ~StrLess(e[1], k))
         IN before \o << <<k, v>> >> \o after

\* serde_json::to_string of a map of strings to strings (no character of the
\* model's alphabet needs escaping)
JsonString(s) == <<"\"">> \o s \o <<"\"">>

RECURSIVE JsonMembers(_)
JsonMembers(m) ==
    IF m = << >> THEN << >>
    ELSE JsonString(m[1][1]) \o <<":">> \o JsonString(m[1][2])
         \o (IF Len(m) > 1 THEN <<",">> ELSE << >>) \o JsonMembers(Tail(m))

JsonObject(m) == <<"{">> \o JsonMembers(m) \o <<"}">>

\* the parameter loop of extract_xml_tool_calls; param_start is 1-based
RECURSIVE ParseParams(_, _, _)
ParseParams(content, param_start, params) ==
    LET abs_param_start == Find(content, param_start, TAG_PARAMETER)
    IN IF abs_param_start = 0 THEN params
       ELSE LET param_name_start == abs_param_start + Len(TAG_PARAMETER)
                param_name_end == Find(content, param_name_start, <<">">>)
            IN IF param_name_end = 0 THEN params
               ELSE LET param_name == Slice(content, param_name_start, param_name_end)
                        param_value_start == param_name_end + 1
                        param_value_end == Find(content, param_value_start, TAG_PARAMETER_END)
                    IN IF param_value_end = 0 THEN params
                       ELSE ParseParams(
                                content,
                                param_value_end + Len(TAG_PARAMETER_END),
                                MapInsert(params, param_name,
                                          Trim(Slice(content, param_value_start, param_value_end))))

\* the function loop of extract_xml_tool_calls; start_idx is 1-based
RECURSIVE ExtractLoop(_, _, _)
ExtractLoop(cleaned, start_idx, calls) ==
    LET absolute_start == Find(cleaned, start_idx, TAG_FUNCTION)
    IN IF absolute_start = 0 THEN <<cleaned, calls>>
       ELSE LET name_start == absolute_start + Len(TAG_FUNCTION)
                name_end == Find(cleaned, name_start, <<">">>)
            IN IF name_end = 0 THEN <<cleaned, calls>>
               ELSE LET function_name == Slice(cleaned, name_start, name_end)
                        content_start == name_end + 1
                        f == Find(cleaned, content_start, TAG_FUNCTION_END)
                        t == Find(cleaned, content_start, TAG_TOOL_CALL_END)
                        end_tag == IF f # 0 THEN f + Len(TAG_FUNCTION_END)
                                   ELSE IF t # 0 THEN t + Len(TAG_TOOL_CALL_END)
                                   ELSE 0
                    IN IF end_tag = 0
                       THEN ExtractLoop(cleaned, name_end + 1, calls)
                       ELSE LET content == Slice(cleaned, content_start, end_tag)
                                params == ParseParams(content, 1, << >>)
                                call == [name |-> function_name,
                                         arguments |-> JsonObject(params)]
                            IN ExtractLoop(
                                   Slice(cleaned, 1, absolute_start) \o From(cleaned, end_tag),
                                   absolute_start,
                                   Append(calls, call))

\* returns <<cleaned_text, parsed_calls>>
extract_xml_tool_calls(text) ==
    IF ~contains_xml_tool_call(text) THEN <<Trim(text), << >> >>
    ELSE LET r == ExtractLoop(text, 1, << >>)
         IN <<Trim(r[1]), r[2]>>


\* ------------------------------------------------------------------- state

VARIABLES
    pc,          \* position of the handler: see Next
    req,         \* the request being handled
    resp,        \* what the upstream answered: "none", "unreachable", or a status
    http,        \* what create_response returned: None or Some([status, code])
    upstream_calls, \* requests sent to the upstream
    cb,          \* app.circuit_breaker
    cb_tasks,    \* spawned record tasks that have not run yet
    cb_calls,    \* record_failure / record_success calls made by this request
    cb_log,      \* the record calls the breaker has run and the cooldowns that ran out, in order
    fn_in,       \* the argument of a function applied on its own, None in a request's run
    fn_out,      \* what that function returned, None before it has
    client_open, \* the client still holds the receiving end of the channel
    channel,     \* Some(events sent into the SSE channel), None before it exists
    send_failed, \* a send into the channel has failed
    sequencer,   \* EventSequencer
    st,          \* the locals of the streaming task
    nread,       \* payloads taken from the upstream body
    body,        \* the payloads taken from the upstream body, in order
    chat_req,    \* the request built for the upstream, None before it is built
    error_body,  \* the body read from a non-2xx upstream response, None before
    xml_indices, \* tool_calls indices given to XML-salvaged calls
    native_indices \* tool_calls indices named by native tool-call deltas

vars == <<pc, req, resp, http, upstream_calls, cb, cb_tasks, cb_calls, cb_log, fn_in, fn_out, client_open,
          channel, send_failed, sequencer, st, nread, body, chat_req, error_body,
          xml_indices, native_indices>>

\* ------------------------------------------------------------ identifiers

\* request_id is the request's start time in hex; the error path formats its
\* own, later, timestamp
request_id == <<"1","a">>
error_timestamp == <<"1","b">>

Str_resp == <<"r","e","s","p","_">>
Str_evt == <<"e","v","t","_">>

HexDigits == <<"0","1","2","3","4","5","6","7","8","9","a","b","c","d","e","f">>

RECURSIVE HexOf(_)
HexOf(n) ==
    IF n < 16 THEN <<HexDigits[n + 1]>>
    ELSE HexOf(n \div 16) \o <<HexDigits[(n % 16) + 1]>>

\* format!("{:0Wx}", n): at least width digits, padded with zeros on the left
HexPadded(n, width) ==
    LET h == HexOf(n)
    IN IF Len(h) >= width THEN h ELSE [i \in 1..(width - Len(h)) |-> "0"] \o h

\* ------------------------------------------------------------------ events

StreamEvent(type_) ==
    [type_ |-> type_, event_id |-> None, response_id |-> None, response |-> None,
     item_id |-> None, output_index |-> None, content_index |-> None,
     delta |-> None, text |-> None, item |-> None, sequence_number |-> None,
     call_id |-> None, name |-> None, arguments |-> None, error |-> None]

\* OutputItem; object is always "realtime.item"
OutputItem(id, type_, status) ==
    [id |-> id, type_ |-> type_, status |-> status, role |-> None, content |-> None,
     call_id |-> None, name |-> None, arguments |-> None]

\* Response; the echoed request parameters are left out
Response(id, status) ==
    [id |-> id, status |-> status, error |-> None, incomplete_details |-> None,
     output |-> << >>, usage |-> None]

EventSequencer_new == [next_event_id |-> 0, next_sequence |-> 0]

\* prepare with a sequence counter that does not advance
prepare_Stuck(sq, event, response_id) ==
    [sequencer |-> [next_event_id |-> sq.next_event_id + 1, next_sequence |-> 1],
     event |-> [event EXCEPT
                  !.event_id = Some(Str_evt \o response_id \o <<"_">>
                                    \o HexPadded(sq.next_event_id + 1, 16)),
                  !.response_id = Some(response_id),
                  !.sequence_number = Some(1)]]

\* EventSequencer::prepare: the stamped event and the sequencer after it.
\* The counters saturate at 2^64-1 and 2^32-1, far beyond the events of a
\* bounded response; serialising these plain structs does not fail.
prepare(sq, event, response_id) ==
    LET next_event_id == sq.next_event_id + 1
        next_sequence == sq.next_sequence + 1
    IN [sequencer |-> [next_event_id |-> next_event_id, next_sequence |-> next_sequence],
        event |-> [event EXCEPT
                     !.event_id = Some(Str_evt \o response_id \o <<"_">>
                                       \o HexPadded(next_event_id, 16)),
                     !.response_id = Some(response_id),
                     !.sequence_number = Some(next_sequence)]]

\* The output side of a task: o = [sequencer, channel, send_failed, open].
\* tx.send fails exactly when the receiver is gone; its result is dropped.
ChannelSend(o, event) ==
    IF o.open
    THEN [o EXCEPT !.channel = Append(@, event)]
    ELSE [o EXCEPT !.send_failed = TRUE]

dispatch_event(o, rid, event) ==
    Bind(prepare(o.sequencer, event, rid),
         LAMBDA p : ChannelSend([o EXCEPT !.sequencer = p.sequencer], p.event))


\* ---------------------------------------------------- streaming orchestrator

response_id == Str_resp \o request_id
message_id == "msg_1a_1"
reasoning_id_seed == "reasoning_1a_1"

\* translate_finish_reason
translate_finish_reason(finish_reason) ==
    IF finish_reason = Some("stop") THEN "completed"
    ELSE IF finish_reason = Some("length") THEN "incomplete"
    ELSE IF finish_reason = Some("content_filter") THEN "failed"
    ELSE IF finish_reason = Some("tool_calls") THEN "completed"
    ELSE IF IsSome(finish_reason) THEN "completed"
    ELSE "in_progress"

\* extract_text_delta on a JSON value v = [k, s, type_, text, items]
RECURSIVE extract_text_delta(_)
RECURSIVE CombineSegments(_, _)
CombineSegments(items, combined) ==
    IF items = << >> THEN combined
    ELSE LET segment == extract_text_delta(Head(items))
         IN CombineSegments(
                Tail(items),
                IF IsSome(segment)
                THEN (IF combined # << >> THEN combined \o <<"\n">> ELSE combined)
                     \o Unwrap(segment)
                ELSE combined)

extract_text_delta(value) ==
    IF value.k = "string" THEN Some(value.s)
    ELSE IF value.k = "object"
    THEN IF value.type_ = "text" \/ value.type_ = "output_text" THEN value.text ELSE None
    ELSE IF value.k = "array"
    THEN LET combined == CombineSegments(value.items, << >>)
         IN IF combined = << >> THEN None ELSE Some(combined)
    ELSE None

\* locals whose final_status starts as the translation of no finish_reason
StreamLocals_InProgress ==
    [accumulated_text |-> << >>, accumulated_reasoning |-> << >>,
     last_text_delta |-> None, reasoning_started |-> FALSE,
     reasoning_item_id |-> None, done |-> FALSE,
     final_status |-> translate_finish_reason(None),
     total_input_tokens |-> 0, total_output_tokens |-> 0,
     tool_calls |-> << >>, next_xml_index |-> 0, xml_buffering |-> FALSE]

\* the locals of the streaming task, as declared before the loop
StreamLocals ==
    [accumulated_text |-> << >>, accumulated_reasoning |-> << >>,
     last_text_delta |-> None, reasoning_started |-> FALSE,
     reasoning_item_id |-> None, done |-> FALSE, final_status |-> "completed",
     total_input_tokens |-> 0, total_output_tokens |-> 0,
     tool_calls |-> << >>, next_xml_index |-> 0, xml_buffering |-> FALSE]

\* What a step of the streaming task has done: u = [st, ev, xml_indices,
\* native_indices], ev being the events it handed to dispatch_event, in order
Emit(u, event) == [u EXCEPT !.ev = Append(@, event)]

MapPut(m, k, v) == [i \in (DOMAIN m) \cup {k} |-> IF i = k THEN v ELSE m[i]]

\* while tool_calls.contains_key(&next_xml_index) { next_xml_index += 1 }
NextXmlIndex(tool_calls, next_xml_index) ==
    MinOf({i \in next_xml_index..(next_xml_index + Cardinality(DOMAIN tool_calls)) :
             i \notin DOMAIN tool_calls})

XmlCallId(call_idx) == "call_xml_1a_" \o ToString(call_idx)

XmlAddedEvent(call_idx, xml_call) ==
    [StreamEvent("response.output_item.added") EXCEPT
       !.item_id = Some(XmlCallId(call_idx)),
       !.output_index = Some(call_idx + 1),
       !.item = Some([OutputItem(XmlCallId(call_idx), "function_call", "in_progress") EXCEPT
                        !.call_id = Some(XmlCallId(call_idx)),
                        !.name = Some(xml_call.name)]),
       !.call_id = Some(XmlCallId(call_idx)),
       !.name = Some(xml_call.name)]

XmlArgsDoneEvent(call_idx, xml_call) ==
    [StreamEvent("response.function_call_arguments.done") EXCEPT
       !.item_id = Some(XmlCallId(call_idx)),
       !.output_index = Some(call_idx + 1),
       !.call_id = Some(XmlCallId(call_idx)),
       !.name = Some(xml_call.name),
       !.arguments = Some(xml_call.arguments)]

\* the body of `for xml_call in xml_calls.into_iter()`
XmlCall(u, xml_call) ==
    Bind(NextXmlIndex(u.st.tool_calls, u.st.next_xml_index),
         LAMBDA call_idx :
            [u EXCEPT
               !.st.next_xml_index = call_idx + 1,
               !.st.tool_calls =
                   MapPut(@, call_idx,
                          [call_id |-> XmlCallId(call_idx), item_id |-> XmlCallId(call_idx),
                           type_ |-> "function", name |-> Some(xml_call.name),
                           arguments |-> xml_call.arguments, item_added |-> TRUE]),
               !.xml_indices = @ \cup {call_idx},
               !.ev = @ \o << XmlAddedEvent(call_idx, xml_call),
                              XmlArgsDoneEvent(call_idx, xml_call) >>])

RECURSIVE XmlCalls(_, _)
XmlCalls(u, xml_calls) ==
    IF xml_calls = << >> THEN u
    ELSE Bind(XmlCall(u, Head(xml_calls)), LAMBDA u1 : XmlCalls(u1, Tail(xml_calls)))

TextDeltaEvent(text) ==
    [StreamEvent("response.output_text.delta") EXCEPT
       !.item_id = Some(message_id),
       !.output_index = Some(0),
       !.content_index = Some(0),
       !.delta = Some(text)]

\* the tail of the text path: duplicate suppression and response.output_text.delta;
\* returns [u, skip], skip meaning the loop's `continue`
EmitTextDelta(u, content_text) ==
    IF u.st.last_text_delta = Some(content_text)
    THEN [u |-> u, skip |-> TRUE]
    ELSE [u |-> [u EXCEPT !.ev = Append(@, TextDeltaEvent(content_text)),
                          !.st.last_text_delta = Some(content_text)],
          skip |-> FALSE]

\* a salvage that leaves the XML in the message text
SalvageXml_KeepsText(u, content_text) ==
    Bind(extract_xml_tool_calls(u.st.accumulated_text),
         LAMBDA ex :
            IF ex[2] # << >>
            THEN [u |-> [XmlCalls(u, ex[2]) EXCEPT !.st.xml_buffering = FALSE],
                  skip |-> TRUE]
            ELSE EmitTextDelta([u EXCEPT !.st.xml_buffering = FALSE], content_text))

\* the closing tag is there: salvage, or give up buffering
SalvageXml(u, content_text) ==
    Bind(extract_xml_tool_calls(u.st.accumulated_text),
         LAMBDA ex :
            IF ex[2] # << >>
            THEN [u |-> [XmlCalls([u EXCEPT !.st.accumulated_text = ex[1]], ex[2])
                           EXCEPT !.st.xml_buffering = FALSE],
                  skip |-> TRUE]
            ELSE EmitTextDelta([u EXCEPT !.st.xml_buffering = FALSE], content_text))

\* accumulated_text.push_str and the start of XML buffering
AccumulateText(u, content_text) ==
    Bind(~u.st.xml_buffering /\ Contains(content_text, TAG_FUNCTION),
         LAMBDA start :
            [u EXCEPT !.st.accumulated_text = @ \o content_text,
                      !.st.xml_buffering = @ \/ start,
                      !.st.last_text_delta = IF start THEN None ELSE @])

\* the text path for a non-empty content_text; returns [u, skip]
HandleText(u, content_text) ==
    Bind(AccumulateText(u, content_text),
         LAMBDA u1 :
            IF u1.st.xml_buffering
            THEN IF \/ Contains(u1.st.accumulated_text, TAG_TOOL_CALL_END)
                    \/ Contains(u1.st.accumulated_text, TAG_FUNCTION_END)
                 THEN SalvageXml(u1, content_text)
                 ELSE [u |-> u1, skip |-> TRUE]
            ELSE EmitTextDelta(u1, content_text))

\* tool_calls.entry(tc.index).or_insert_with(..), then the id and type updates
UpsertToolCall(tool_calls, tc) ==
    Bind(IF tc.index \in DOMAIN tool_calls
         THEN tool_calls[tc.index]
         ELSE [call_id |-> UnwrapOr(tc.id, "call_1a_" \o ToString(tc.index)),
               item_id |-> UnwrapOr(tc.id, "call_1a_" \o ToString(tc.index)),
               type_ |-> UnwrapOr(tc.type_, "function"), name |-> None,
               arguments |-> << >>, item_added |-> FALSE],
         LAMBDA entry :
            [entry EXCEPT !.call_id = UnwrapOr(tc.id, @),
                          !.item_id = UnwrapOr(tc.id, @),
                          !.type_ = UnwrapOr(tc.type_, @)])

\* an output_item.added that carries the backend index itself
NativeAddedEvent_Unshifted(call_state, index) ==
    [StreamEvent("response.output_item.added") EXCEPT
       !.item_id = Some(call_state.item_id),
       !.output_index = Some(index),
       !.item = Some([OutputItem(call_state.item_id, "function_call", "in_progress") EXCEPT
                        !.call_id = Some(call_state.call_id),
                        !.name = call_state.name,
                        !.arguments = Some(<< >>)]),
       !.call_id = Some(call_state.call_id)]

NativeAddedEvent(call_state, index) ==
    [StreamEvent("response.output_item.added") EXCEPT
       !.item_id = Some(call_state.item_id),
       !.output_index = Some(index + 1),
       !.item = Some([OutputItem(call_state.item_id, "function_call", "in_progress") EXCEPT
                        !.call_id = Some(call_state.call_id),
                        !.name = call_state.name,
                        !.arguments = Some(<< >>)]),
       !.call_id = Some(call_state.call_id)]

ArgsDeltaEvent(call_state, index, args) ==
    [StreamEvent("response.function_call_arguments.delta") EXCEPT
       !.item_id = Some(call_state.item_id),
       !.output_index = Some(index + 1),
       !.delta = Some(args),
       !.call_id = Some(call_state.call_id)]

\* `if let Some(ref name) = func.name`: s is the call state, e the events
NameDelta(r, index, name) ==
    IF IsSome(name)
    THEN IF ~r.s.item_added
         THEN Bind([r.s EXCEPT !.name = name, !.item_added = TRUE],
                   LAMBDA s1 : [s |-> s1, e |-> Append(r.e, NativeAddedEvent(s1, index))])
         ELSE [r EXCEPT !.s.name = name]
    ELSE r

\* `if let Some(ref args) = func.arguments`
ArgumentsDelta(r, index, arguments) ==
    IF IsSome(arguments)
    THEN Bind([r.s EXCEPT !.arguments = @ \o Unwrap(arguments)],
              LAMBDA s1 : [s |-> s1, e |-> Append(r.e, ArgsDeltaEvent(s1, index, Unwrap(arguments)))])
    ELSE r

\* `if let Some(ref func) = tc.function`
FunctionDelta(r, tc) ==
    IF IsSome(tc.function)
    THEN Bind(NameDelta(r, tc.index, Unwrap(tc.function).name),
              LAMBDA r1 : ArgumentsDelta(r1, tc.index, Unwrap(tc.function).arguments))
    ELSE r

\* the body of `for tc in tool_calls_delta`
NativeCall(u, tc) ==
    Bind(FunctionDelta([s |-> UpsertToolCall(u.st.tool_calls, tc), e |-> << >>], tc),
         LAMBDA r :
            [u EXCEPT !.st.tool_calls = MapPut(@, tc.index, r.s),
                      !.native_indices = @ \cup {tc.index},
                      !.ev = @ \o r.e])

RECURSIVE NativeCalls(_, _)
NativeCalls(u, tool_calls_delta) ==
    IF tool_calls_delta = << >> THEN u
    ELSE Bind(NativeCall(u, Head(tool_calls_delta)),
              LAMBDA u1 : NativeCalls(u1, Tail(tool_calls_delta)))

ReasoningDeltaEvent(stl, reasoning) ==
    [StreamEvent("response.reasoning_text.delta") EXCEPT
       !.item_id = stl.reasoning_item_id,
       !.output_index = Some(0),
       !.content_index = Some(0),
       !.delta = Some(reasoning)]

\* delta.reasoning_content
HandleReasoning(u, reasoning) ==
    IF reasoning = << >> THEN u
    ELSE Bind([u EXCEPT !.st.accumulated_reasoning = @ \o reasoning,
                        !.st.reasoning_item_id =
                            IF u.st.reasoning_started THEN @ ELSE Some(reasoning_id_seed),
                        !.st.reasoning_started = TRUE],
              LAMBDA u1 : Emit(u1, ReasoningDeltaEvent(u1.st, reasoning)))

\* `if let Some(content) = &delta.content`; returns [u, skip]
HandleContent(u, content) ==
    Bind(IF IsSome(content) THEN extract_text_delta(Unwrap(content)) ELSE None,
         LAMBDA content_text :
            IF IsSome(content_text) /\ Unwrap(content_text) # << >>
            THEN HandleText(u, Unwrap(content_text))
            ELSE [u |-> u, skip |-> FALSE])

\* `if let Some(delta) = &choice.delta`
HandleDelta(u, delta) ==
    Bind(HandleContent(IF IsSome(delta.reasoning_content)
                       THEN HandleReasoning(u, Unwrap(delta.reasoning_content))
                       ELSE u,
                       delta.content),
         LAMBDA r :
            IF ~r.skip /\ IsSome(delta.tool_calls)
            THEN NativeCalls(r.u, Unwrap(delta.tool_calls))
            ELSE r.u)

\* `if let Some(message) = &choice.message`: the non-streaming fallback
HandleMessage(u, message) ==
    IF IsSome(message.content)
    THEN [u EXCEPT !.st.accumulated_text = @ \o Unwrap(message.content),
                   !.ev = Append(@, TextDeltaEvent(Unwrap(message.content)))]
    ELSE u

\* a final_status that keeps "incomplete" once a chunk has set it
UpdateFinalStatus_Sticky(final_status, finish_reason) ==
    IF final_status = "incomplete" THEN final_status
    ELSE IF IsSome(finish_reason) THEN translate_finish_reason(finish_reason)
    ELSE final_status

\* final_status after this choice's finish_reason
UpdateFinalStatus(final_status, finish_reason) ==
    IF IsSome(finish_reason) THEN translate_finish_reason(finish_reason) ELSE final_status

\* `if let Some(usage) = &chunk.usage`
UpdateUsage(stl, usage) ==
    IF IsSome(usage)
    THEN [stl EXCEPT !.total_input_tokens = UnwrapOr(Unwrap(usage).prompt_tokens, @),
                     !.total_output_tokens = UnwrapOr(Unwrap(usage).completion_tokens, @)]
    ELSE stl

\* choices[0] of a chunk without error
HandleChoice(u, chunk, choice) ==
    Bind([u EXCEPT !.st = UpdateUsage(
                      [@ EXCEPT !.final_status = UpdateFinalStatus(@, choice.finish_reason)],
                      chunk.usage)],
         LAMBDA u1 :
            IF IsSome(choice.message) THEN HandleMessage(u1, Unwrap(choice.message))
            ELSE IF IsSome(choice.delta) THEN HandleDelta(u1, Unwrap(choice.delta))
            ELSE u1)

\* a parsed chunk whose error marks the response failed without leaving the loop
ProcessChunk_ErrorGoesOn(u, chunk) ==
    IF IsSome(chunk.error)
    THEN [u |-> [u EXCEPT !.st.final_status = "failed"], brk |-> FALSE]
    ELSE IF chunk.choices = << >> THEN [u |-> u, brk |-> FALSE]
    ELSE [u |-> HandleChoice(u, chunk, chunk.choices[1]), brk |-> FALSE]

\* a parsed chunk; returns [u, brk], brk meaning that the loop is left
ProcessChunk(u, chunk) ==
    IF IsSome(chunk.error)
    THEN [u |-> [u EXCEPT !.st.final_status = "failed", !.st.done = TRUE], brk |-> TRUE]
    ELSE IF chunk.choices = << >> THEN [u |-> u, brk |-> FALSE]
    ELSE [u |-> HandleChoice(u, chunk, chunk.choices[1]), brk |-> FALSE]

\* a parse failure that fails the response
ProcessPayload_ParseFails(u, p) ==
    IF p.data = "[DONE]" THEN [u |-> [u EXCEPT !.st.done = TRUE], brk |-> TRUE]
    ELSE IF p.data = "" THEN [u |-> u, brk |-> FALSE]
    ELSE IF p.data = "garbage"
    THEN [u |-> [u EXCEPT !.st.final_status = "failed"], brk |-> FALSE]
    ELSE ProcessChunk(u, p.chunk)

\* one payload of the upstream body, p = [data, chunk]: data is the trimmed
\* payload text ("json" standing for a text that parses as a chunk, "garbage"
\* for one that does not)
ProcessPayload(u, p) ==
    IF p.data = "[DONE]" THEN [u |-> [u EXCEPT !.st.done = TRUE], brk |-> TRUE]
    ELSE IF p.data = "" THEN [u |-> u, brk |-> FALSE]
    ELSE IF p.data = "garbage" THEN [u |-> u, brk |-> FALSE]
    ELSE ProcessChunk(u, p.chunk)

\* Phase A: the three events sent before res.bytes_stream() is taken
CreatedEvent ==
    [StreamEvent("response.created") EXCEPT
       !.response = Some(Response(response_id, "in_progress"))]

MessageAddedEvent ==
    [StreamEvent("response.output_item.added") EXCEPT
       !.item_id = Some(message_id),
       !.output_index = Some(0),
       !.item = Some([OutputItem(message_id, "message", "in_progress") EXCEPT
                        !.role = Some("assistant"),
                        !.content = Some(<< >>)])]

ContentAddedEvent ==
    [StreamEvent("response.content_part.added") EXCEPT
       !.item_id = Some(message_id),
       !.output_index = Some(0),
       !.content_index = Some(0)]

\* a preamble that opens the message before the response
Preamble_Reordered(u) ==
    [u EXCEPT !.ev = @ \o <<MessageAddedEvent, CreatedEvent, ContentAddedEvent>>]

Preamble(u) == [u EXCEPT !.ev = @ \o <<CreatedEvent, MessageAddedEvent, ContentAddedEvent>>]

\* the indices taken from the map highest first
RECURSIVE SortedIndices_Descending(_)
SortedIndices_Descending(S) ==
    IF S = {} THEN << >>
    ELSE Bind(CHOOSE x \in S : \A y \in S : y <= x,
              LAMBDA m : <<m>> \o SortedIndices_Descending(S \ {m}))

\* sorted_calls.sort_by_key(|(idx, _)| *idx): the indices in ascending order
RECURSIVE SortedIndices(_)
SortedIndices(S) ==
    IF S = {} THEN << >>
    ELSE Bind(MinOf(S), LAMBDA m : <<m>> \o SortedIndices(S \ {m}))

FunctionName(call_state) ==
    UnwrapOr(call_state.name, <<"f","u","n","c","t","i","o","n","_","c","a","l","l">>)

ArgsDoneEvent(call_state, idx) ==
    [StreamEvent("response.function_call_arguments.done") EXCEPT
       !.item_id = Some(call_state.item_id),
       !.output_index = Some(idx + 1),
       !.call_id = Some(call_state.call_id),
       !.name = Some(FunctionName(call_state)),
       !.arguments = Some(call_state.arguments)]

CallDoneEvent(call_state, idx) ==
    [StreamEvent("response.output_item.done") EXCEPT
       !.item_id = Some(call_state.item_id),
       !.output_index = Some(idx + 1),
       !.item = Some([OutputItem(call_state.item_id, "function_call", "completed") EXCEPT
                        !.call_id = Some(call_state.call_id),
                        !.name = Some(FunctionName(call_state)),
                        !.arguments = Some(call_state.arguments)]),
       !.call_id = Some(call_state.call_id)]

\* `for (idx, call_state) in sorted_calls`: the events of every tool call
RECURSIVE ToolCallsDone(_, _)
ToolCallsDone(tool_calls, sorted_calls) ==
    IF sorted_calls = << >> THEN << >>
    ELSE << ArgsDoneEvent(tool_calls[Head(sorted_calls)], Head(sorted_calls)),
            CallDoneEvent(tool_calls[Head(sorted_calls)], Head(sorted_calls)) >>
         \o ToolCallsDone(tool_calls, Tail(sorted_calls))

ReasoningItems(stl) ==
    IF stl.reasoning_started /\ stl.accumulated_reasoning # << >>
    THEN << [OutputItem(UnwrapOr(stl.reasoning_item_id, reasoning_id_seed),
                        "reasoning", "completed") EXCEPT
               !.role = Some("assistant"),
               !.content = Some(<< [type_ |-> "reasoning",
                                    text |-> stl.accumulated_reasoning] >>)] >>
    ELSE << >>

MessageItem(stl) ==
    [OutputItem(message_id, "message", "completed") EXCEPT
       !.role = Some("assistant"),
       !.content = Some(<< [type_ |-> "output_text", text |-> stl.accumulated_text] >>)]

FinalToolCall(call_state) ==
    [OutputItem(call_state.item_id, "function_call", "completed") EXCEPT
       !.call_id = Some(call_state.call_id),
       !.name = call_state.name,
       !.arguments = Some(call_state.arguments)]

\* the output array of response.completed
OutputItems(stl) ==
    ReasoningItems(stl) \o << MessageItem(stl) >>
    \o Bind(SortedIndices(DOMAIN stl.tool_calls),
            LAMBDA sorted_calls :
               [i \in 1..Len(sorted_calls) |-> FinalToolCall(stl.tool_calls[sorted_calls[i]])])

IncompleteDetails(final_status) ==
    IF final_status = "incomplete" THEN Some([reason |-> "max_output_tokens"]) ELSE None

ReasoningDoneEvent(stl) ==
    [StreamEvent("response.reasoning_text.done") EXCEPT
       !.item_id = stl.reasoning_item_id,
       !.output_index = Some(0),
       !.content_index = Some(0),
       !.text = Some(stl.accumulated_reasoning)]

TextDoneEvent(stl) ==
    [StreamEvent("response.output_text.done") EXCEPT
       !.item_id = Some(message_id),
       !.output_index = Some(0),
       !.content_index = Some(0),
       !.text = Some(stl.accumulated_text)]

ContentDoneEvent ==
    [StreamEvent("response.content_part.done") EXCEPT
       !.item_id = Some(message_id),
       !.output_index = Some(0),
       !.content_index = Some(0)]

MessageDoneEvent(stl) ==
    [StreamEvent("response.output_item.done") EXCEPT
       !.item_id = Some(message_id),
       !.output_index = Some(0),
       !.item = Some(MessageItem(stl))]

CompletedEvent(stl) ==
    [StreamEvent("response.completed") EXCEPT
       !.response = Some([Response(response_id, stl.final_status) EXCEPT
             !.incomplete_details = IncompleteDetails(stl.final_status),
             !.output = OutputItems(stl),
             !.usage = Some([input_tokens |-> stl.total_input_tokens,
                             output_tokens |-> stl.total_output_tokens,
                             total_tokens |-> stl.total_input_tokens
                                              + stl.total_output_tokens])])]

\* Phase C closing the message item whether or not it has text
Finalise_AlwaysClosing(u) ==
    [u EXCEPT
       !.ev = @ \o << TextDoneEvent(u.st), ContentDoneEvent, MessageDoneEvent(u.st) >>
                \o ToolCallsDone(u.st.tool_calls, SortedIndices(DOMAIN u.st.tool_calls))
                \o << CompletedEvent(u.st) >>]

\* Phase C without its last event
Finalise_NoTerminal(u) ==
    [u EXCEPT
       !.ev = @ \o ToolCallsDone(u.st.tool_calls, SortedIndices(DOMAIN u.st.tool_calls))]

\* Phase C, up to and including response.completed
Finalise(u) ==
    [u EXCEPT
       !.st.last_text_delta = IF u.st.accumulated_text # << >> THEN None ELSE @,
       !.ev = @ \o (IF u.st.reasoning_started THEN << ReasoningDoneEvent(u.st) >> ELSE << >>)
                \o (IF u.st.accumulated_text # << >>
                    THEN << TextDoneEvent(u.st), ContentDoneEvent, MessageDoneEvent(u.st) >>
                    ELSE << >>)
                \o ToolCallsDone(u.st.tool_calls, SortedIndices(DOMAIN u.st.tool_calls))
                \o << CompletedEvent(u.st) >>]

\* the events of a step go through dispatch_event one after the other
RECURSIVE DispatchAll(_, _)
DispatchAll(o, ev) ==
    IF ev = << >> THEN o
    ELSE Bind(dispatch_event(o, response_id, Head(ev)), LAMBDA o1 : DispatchAll(o1, Tail(ev)))

\* the single event of send_error_response's task
error_response_id == Str_resp \o error_timestamp

ErrorEvent(error_code) ==
    [StreamEvent("response.failed") EXCEPT
       !.event_id = Some(Str_evt \o error_response_id \o <<"_","0","0","0","1">>),
       !.response_id = Some(error_response_id),
       !.response = Some([Response(error_response_id, "failed") EXCEPT
                            !.error = Some([code |-> error_code])]),
       !.sequence_number = Some(1)]


\* --------------------------------------------------------- circuit breaker

\* Consecutive failures that open the breaker (configuration).
FailureThreshold == 2

\* cb = [enabled, consecutive_failures, is_open, cooling, probing]; cooling
\* stands for now - opened_at < cooldown, probing for an admitted half-open
\* probe that has not resolved
should_allow_request(c) ==
    IF ~c.enabled \/ ~c.is_open THEN [allow |-> TRUE, cb |-> c]
    ELSE IF c.cooling THEN [allow |-> FALSE, cb |-> c]
    ELSE IF ~c.probing THEN [allow |-> TRUE, cb |-> [c EXCEPT !.probing = TRUE]]
    ELSE [allow |-> FALSE, cb |-> c]

record_success(c) ==
    [c EXCEPT !.consecutive_failures = 0, !.is_open = FALSE, !.cooling = FALSE,
              !.probing = FALSE]

\* a record_failure that counts but never opens the breaker
record_failure_NeverOpens(c) == [c EXCEPT !.consecutive_failures = @ + 1]

record_failure(c) ==
    LET n == c.consecutive_failures + 1
    IN IF n >= FailureThreshold
       THEN [c EXCEPT !.consecutive_failures = n, !.is_open = TRUE, !.cooling = TRUE,
                      !.probing = FALSE]
       ELSE [c EXCEPT !.consecutive_failures = n]

\* task::spawn(async move { cb.write().await.record_failure() })
record_circuit_breaker_failure(tasks) == [tasks EXCEPT !.failure = @ + 1]

\* tokio::spawn(async move { cb_clone.write().await.record_success() })
SpawnRecordSuccess(tasks) == [tasks EXCEPT !.success = @ + 1]

\* -------------------------------------------------------- converter: tools

\* Tool: the Nested variant carries function, the Flat one name, description,
\* parameters and the flattened rest (extra)
NestedTool(ty, name) ==
    [variant |-> "Nested", type_ |-> ty,
     function |-> Some([name |-> name, description |-> Some("about " \o name),
                        parameters |-> "schema of " \o name]),
     name |-> None, description |-> None, parameters |-> None,
     extra_name |-> None, extra_description |-> None]

FlatTool(ty, name) ==
    [variant |-> "Flat", type_ |-> ty, function |-> None,
     name |-> name, description |-> None, parameters |-> None,
     extra_name |-> None, extra_description |-> None]

\* Tool::type_
Tool_type(t) == t.type_

\* Tool::function_def
function_def(t) ==
    IF t.variant = "Nested" THEN Unwrap(t.function)
    ELSE [name |-> IF IsSome(t.name) THEN Unwrap(t.name)
                   ELSE IF IsSome(t.extra_name) THEN Unwrap(t.extra_name)
                   ELSE t.type_,
          description |-> IF IsSome(t.description) THEN t.description
                          ELSE t.extra_description,
          parameters |-> UnwrapOr(t.parameters, "{}")]

\* ChatTool::Function
ChatTool_Function(f) ==
    [type_ |-> "function",
     function |-> [name |-> f.name, description |-> f.description,
                   parameters |-> f.parameters]]

\* original_tool_names
OriginalToolNames(req_tools) ==
    IF IsSome(req_tools)
    THEN [i \in 1..Len(Unwrap(req_tools)) |-> function_def(Unwrap(req_tools)[i]).name]
    ELSE << >>

\* tools_vec.iter().filter_map(..).collect()
FunctionTools(req_tools) ==
    IF IsSome(req_tools)
    THEN Bind(SelectSeq(Unwrap(req_tools), LAMBDA t : Tool_type(t) = "function"),
              LAMBDA kept : [i \in 1..Len(kept) |-> ChatTool_Function(function_def(kept[i]))])
    ELSE << >>

tool_exists(tools, name) == \E i \in 1..Len(tools) : tools[i].function.name = name

tool_in_original(original_tool_names, name) ==
    \E i \in 1..Len(original_tool_names) : original_tool_names[i] = name

\* the ChatTool pushed for a missing file-operation tool
InjectedTool(name) ==
    [type_ |-> "function",
     function |-> [name |-> name, description |-> Some("about " \o name),
                   parameters |-> "schema of " \o name]]

\* an injection that does not look at the request's tools
InjectTool_Always(tools, original_tool_names, name) == Append(tools, InjectedTool(name))

\* `if !tool_exists(&tools, name) && !tool_in_original(name) { tools.push(..) }`
InjectTool(tools, original_tool_names, name) ==
    IF ~tool_exists(tools, name) /\ ~tool_in_original(original_tool_names, name)
    THEN Append(tools, InjectedTool(name))
    ELSE tools

\* the tools field of the ChatCompletionRequest
ConvertTools(req_tools) ==
    Bind(OriginalToolNames(req_tools),
         LAMBDA names :
            Bind(InjectTool(InjectTool(InjectTool(InjectTool(
                    FunctionTools(req_tools),
                    names, "apply_patch"), names, "read_file"), names, "list_dir"),
                    names, "grep_files"),
                 LAMBDA tools : IF tools = << >> THEN None ELSE Some(tools)))

\* ------------------------------------------------------- converter: input

\* ResponseInputItem: one shape for the five variants, the fields a variant
\* lacks being None
InputItem(ty) ==
    [type_ |-> ty, role |-> None, content |-> None, text |-> None,
     encrypted_content |-> None, id |-> None, call_id |-> None, name |-> None,
     arguments |-> None, output |-> None]

\* ResponseContent::String and ResponseContent::Array
StringContent(text) == [k |-> "string", s |-> text, parts |-> << >>]
ArrayContent(parts) == [k |-> "array", s |-> << >>, parts |-> parts]

\* ContentPart: InputText, OutputText and Reasoning carry text, InputImage
\* carries image_url.url
TextPart(ty, text) == [type_ |-> ty, text |-> text, url |-> << >>]
ImagePart(url) == [type_ |-> "input_image", text |-> << >>, url |-> url]

InputMessage(role, content) ==
    [InputItem("message") EXCEPT !.role = Some(role), !.content = Some(content)]

InputFunctionCall(call_id, name, arguments) ==
    [InputItem("function_call") EXCEPT
       !.call_id = Some(call_id), !.name = Some(name), !.arguments = Some(arguments)]

\* output = [raw, inner]: the string, and the string under "output" when the
\* string is JSON that has one
InputFunctionCallOutput(call_id, output) ==
    [InputItem("function_call_output") EXCEPT
       !.call_id = Some(call_id), !.output = Some(output)]

InputReasoning(text, encrypted_content) ==
    [InputItem("reasoning") EXCEPT !.text = text, !.encrypted_content = encrypted_content]

InputItemReference(id) == [InputItem("item_reference") EXCEPT !.id = Some(id)]

ChatMessage(role, content) ==
    [role |-> role, content |-> Some(content), tool_calls |-> None, tool_call_id |-> None]

\* serde_json::Value: a string or an array; the objects of an array are
\* {"type": "text", "text": ..} and {"type": "image_url", "image_url": {"url": ..}}
JsonStr(text) == [k |-> "string", s |-> text, items |-> << >>]
JsonArr(items) == [k |-> "array", s |-> << >>, items |-> items]

\* Value::as_str
as_str(value) == IF value.k = "string" THEN Some(value.s) ELSE None

\* the `for part in parts` loop: cv = [converted, reasoning_text]
RECURSIVE ConvertParts(_, _)
ConvertParts(parts, cv) ==
    IF parts = << >> THEN cv
    ELSE LET part == Head(parts)
         IN ConvertParts(
                Tail(parts),
                IF part.type_ \in {"input_text", "output_text"}
                THEN [cv EXCEPT !.converted =
                        Append(@, [type_ |-> "text", text |-> part.text, url |-> << >>])]
                ELSE IF part.type_ = "input_image"
                THEN [cv EXCEPT !.converted =
                        Append(@, [type_ |-> "image_url", text |-> << >>, url |-> part.url])]
                ELSE [cv EXCEPT !.reasoning_text =
                        (IF @ # << >> THEN @ \o <<"\n">> ELSE @) \o part.text])

\* Vec<String>::join("\n")
RECURSIVE JoinLines(_)
JoinLines(parts) ==
    IF parts = << >> THEN << >>
    ELSE IF Len(parts) = 1 THEN parts[1]
    ELSE parts[1] \o <<"\n">> \o JoinLines(Tail(parts))

TextsOf(parts) ==
    LET texts == SelectSeq(parts, LAMBDA q : q.type_ \in {"input_text", "output_text"})
    IN [i \in 1..Len(texts) |-> texts[i].text]

\* returns <<content_value, extracted_reasoning_text>>
convert_response_content(content) ==
    IF content.k = "string" THEN <<JsonStr(content.s), None>>
    ELSE LET cv == ConvertParts(content.parts, [converted |-> << >>, reasoning_text |-> << >>])
             has_images == \E i \in 1..Len(content.parts) :
                              content.parts[i].type_ = "input_image"
             reasoning == IF cv.reasoning_text # << >> THEN Some(cv.reasoning_text) ELSE None
         IN IF ~has_images /\ cv.converted # << >>
            THEN <<JsonStr(JoinLines(TextsOf(content.parts))), reasoning>>
            ELSE <<JsonArr(cv.converted), reasoning>>

Think(thinking_text, original_content) ==
    <<"<","t","h","i","n","k",">">> \o thinking_text
    \o <<"<","/","t","h","i","n","k",">","\n">> \o original_content

\* json!({"id": call_id, "type": "function", "function": {name, arguments}})
ToolCallValue(item) ==
    [id |-> Unwrap(item.call_id), type_ |-> "function",
     function |-> [name |-> Unwrap(item.name), arguments |-> Unwrap(item.arguments)]]

\* the walk's locals: w = [messages, accumulated_reasoning, pending_tool_calls]
ConvertMessage(w, item) ==
    LET role == Unwrap(item.role)
        cc == convert_response_content(Unwrap(item.content))
        reasoning1 == IF IsSome(cc[2]) THEN Append(w.accumulated_reasoning, Unwrap(cc[2]))
                      ELSE w.accumulated_reasoning
        prepend == role = "assistant" /\ reasoning1 # << >>
        msg_content == IF prepend
                       THEN JsonStr(Think(JoinLines(reasoning1), UnwrapOr(as_str(cc[1]), << >>)))
                       ELSE cc[1]
        attach == role = "assistant" /\ w.pending_tool_calls # << >>
    IN [messages |->
            Append(w.messages,
                   [ChatMessage(role, msg_content) EXCEPT
                      !.tool_calls = IF attach THEN Some(w.pending_tool_calls) ELSE None]),
        accumulated_reasoning |-> IF prepend THEN << >> ELSE reasoning1,
        pending_tool_calls |-> IF attach THEN << >> ELSE w.pending_tool_calls]

\* a message arm that attaches the pending calls and keeps them
ConvertItem_KeepsPending(w, item) ==
    IF item.type_ = "message"
    THEN [ConvertMessage(w, item) EXCEPT !.pending_tool_calls = w.pending_tool_calls]
    ELSE IF item.type_ = "function_call"
    THEN [w EXCEPT !.pending_tool_calls = Append(@, ToolCallValue(item))]
    ELSE IF item.type_ = "function_call_output"
    THEN [w EXCEPT !.messages =
            Append(@, [ChatMessage("tool",
                                   JsonStr(UnwrapOr(Unwrap(item.output).inner,
                                                    Unwrap(item.output).raw)))
                         EXCEPT !.tool_call_id = item.call_id])]
    ELSE IF item.type_ = "reasoning" /\ IsSome(item.text)
    THEN [w EXCEPT !.accumulated_reasoning = Append(@, Unwrap(item.text))]
    ELSE w

\* the body of `for item in items`
ConvertItem(w, item) ==
    IF item.type_ = "message" THEN ConvertMessage(w, item)
    ELSE IF item.type_ = "function_call"
    THEN [w EXCEPT !.pending_tool_calls = Append(@, ToolCallValue(item))]
    ELSE IF item.type_ = "function_call_output"
    THEN [w EXCEPT !.messages =
            Append(@, [ChatMessage("tool",
                                   JsonStr(UnwrapOr(Unwrap(item.output).inner,
                                                    Unwrap(item.output).raw)))
                         EXCEPT !.tool_call_id = item.call_id])]
    ELSE IF item.type_ = "reasoning" /\ IsSome(item.text)
    THEN [w EXCEPT !.accumulated_reasoning = Append(@, Unwrap(item.text))]
    ELSE w

RECURSIVE ConvertItems(_, _)
ConvertItems(w, items) ==
    IF items = << >> THEN w
    ELSE ConvertItems(ConvertItem(w, Head(items)), Tail(items))

\* the system message made of the instructions and the tool-format override
SystemMessage == ChatMessage("system", JsonStr(<<"instructions", "tool_override">>))

\* the messages field of the ChatCompletionRequest; input is None, a
\* ResponseInput::String [k |-> "string", s] or an Array [k |-> "array", items]
ConvertInput(r) ==
    LET system == IF IsSome(r.instructions_len) /\ Unwrap(r.instructions_len) > 0
                  THEN << SystemMessage >> ELSE << >>
    IN IF r.input = None THEN system
       ELSE IF Unwrap(r.input).k = "string"
       THEN Append(system, ChatMessage("user", JsonStr(Unwrap(r.input).s)))
       ELSE ConvertItems([messages |-> system, accumulated_reasoning |-> << >>,
                          pending_tool_calls |-> << >>],
                         Unwrap(r.input).items).messages

\* convert_to_chat_completions: the fields settled so far
convert_to_chat_completions(r) ==
    [messages |-> ConvertInput(r), tools |-> ConvertTools(r.tools)]

\* the items an input array can carry
MaxItems == 4

Items ==
    { InputMessage("assistant", StringContent(<<"a">>)),
      InputMessage("user", StringContent(<<"u">>)),
      InputFunctionCall("c1", "f", <<"{","}">>),
      InputFunctionCall("c2", "g", <<"{","}">>),
      InputFunctionCallOutput("c1", [raw |-> <<"o">>, inner |-> None]),
      InputReasoning(Some(<<"r">>), None),
      InputItemReference("i1") }

ItemLists == UNION { [1..n -> Items] : n \in 0..MaxItems }

\* the tools a request can carry
Tools ==
    { NestedTool("function", "f"),
      FlatTool("function", Some("apply_patch")),
      FlatTool("web_search", None),
      FlatTool("custom", Some("read_file")),
      FlatTool("list_dir", None),
      FlatTool("custom", Some("grep_files")),
      FlatTool("custom", Some("apply_patch")) }

ToolLists ==
    {None} \cup { Some(l) : l \in UNION { [1..n -> Tools] : n \in 0..MaxTools } }

\* ------------------------------------------------------ request validation

MAX_INPUT_CONTENT_SIZE == 5 * 1024 * 1024

Reject(status, code) == Some([status |-> status, code |-> code])

\* the checks made before the circuit-breaker gate
PreGateCheck(r) ==
    IF ~r.parses THEN Reject(422, "invalid_request_format")
    ELSE IF r.background THEN Reject(400, "background_not_supported")
    ELSE IF r.prompt THEN Reject(400, "prompt_reference_not_supported")
    ELSE None

\* the checks made after the gate, up to convert_to_chat_completions
PostGateCheck(r) ==
    IF IsSome(r.items_len) /\ Unwrap(r.items_len) > 1000
    THEN Reject(400, "too_many_messages")
    ELSE IF IsSome(r.max_output_tokens) /\ Unwrap(r.max_output_tokens) \notin 1..100000
    THEN Reject(400, "invalid_max_tokens")
    ELSE IF IsSome(r.instructions_len) /\ Unwrap(r.instructions_len) > 100 * 1024
    THEN Reject(400, "instructions_too_large")
    ELSE IF IsSome(r.input_size) /\ Unwrap(r.input_size) > MAX_INPUT_CONTENT_SIZE
    THEN Reject(413, "input_content_too_large")
    ELSE IF IsSome(r.top_logprobs) /\ Unwrap(r.top_logprobs) > 20
    THEN Reject(400, "invalid_top_logprobs")
    ELSE IF ~r.api_key THEN Reject(401, "missing_api_key")
    ELSE IF ~r.model THEN Reject(400, "invalid_request")
    ELSE None

\* a request at the edge of every limit
ValidRequest ==
    [parses |-> TRUE, background |-> FALSE, prompt |-> FALSE, items_len |-> Some(1000),
     max_output_tokens |-> Some(100000), instructions_len |-> Some(100 * 1024),
     input_size |-> Some(MAX_INPUT_CONTENT_SIZE), top_logprobs |-> Some(20),
     api_key |-> TRUE, model |-> TRUE, tools |-> None, input |-> None]

Requests ==
    { ValidRequest,
      [ValidRequest EXCEPT !.parses = FALSE],
      [ValidRequest EXCEPT !.background = TRUE],
      [ValidRequest EXCEPT !.prompt = TRUE],
      [ValidRequest EXCEPT !.items_len = Some(1001)],
      [ValidRequest EXCEPT !.max_output_tokens = Some(0)],
      [ValidRequest EXCEPT !.max_output_tokens = Some(100001)],
      [ValidRequest EXCEPT !.instructions_len = Some(100 * 1024 + 1)],
      [ValidRequest EXCEPT !.input_size = Some(MAX_INPUT_CONTENT_SIZE + 1)],
      [ValidRequest EXCEPT !.top_logprobs = Some(21)],
      [ValidRequest EXCEPT !.api_key = FALSE],
      [ValidRequest EXCEPT !.model = FALSE] }


\* ------------------------------------------------------- upstream payloads

EmptyChunk == [error |-> None, choices |-> << >>, usage |-> None]
EmptyChoice == [delta |-> None, message |-> None, finish_reason |-> None]
EmptyDelta == [content |-> None, tool_calls |-> None, reasoning_content |-> None]

Json(chunk) == [data |-> "json", chunk |-> chunk]
Raw(data) == [data |-> data, chunk |-> EmptyChunk]
DeltaChunk(delta) ==
    Json([EmptyChunk EXCEPT !.choices = << [EmptyChoice EXCEPT !.delta = Some(delta)] >>])
FinishChunk(reason) ==
    Json([EmptyChunk EXCEPT !.choices = << [EmptyChoice EXCEPT !.finish_reason = Some(reason)] >>])
StringValue(text) == [k |-> "string", s |-> text]
ToolCallDelta(index, id, name, arguments) ==
    [index |-> index, id |-> id, type_ |-> None,
     function |-> Some([name |-> name, arguments |-> arguments])]

Text_hi == <<"h","i">>
Text_call_f == TAG_FUNCTION \o <<"f",">">> \o TAG_FUNCTION_END
Text_call_f_k ==
    TAG_FUNCTION \o <<"f",">","\n">> \o TAG_PARAMETER \o <<"k",">"," ","v","\n">>
    \o TAG_PARAMETER_END \o <<"\n">> \o TAG_FUNCTION_END

P_Done == Raw("[DONE]")
P_Error == Json([EmptyChunk EXCEPT !.error = Some("overloaded")])
P_Garbage == Raw("garbage")
P_Text == DeltaChunk([EmptyDelta EXCEPT !.content = Some(StringValue(Text_hi))])
P_Xml == DeltaChunk([EmptyDelta EXCEPT !.content = Some(StringValue(Text_call_f))])
P_XmlParam == DeltaChunk([EmptyDelta EXCEPT !.content = Some(StringValue(Text_call_f_k))])
P_Tool == DeltaChunk([EmptyDelta EXCEPT !.tool_calls =
              Some(<< ToolCallDelta(0, Some("c1"), Some(<<"g">>), Some(<<"{","}">>)) >>)])
P_Tool2 == DeltaChunk([EmptyDelta EXCEPT !.tool_calls =
              Some(<< ToolCallDelta(2, None, Some(<<"h">>), Some(<<"[","]">>)) >>)])
\* arguments for the call of index 0, without its name
P_ToolArgs == DeltaChunk([EmptyDelta EXCEPT !.tool_calls =
              Some(<< ToolCallDelta(0, None, None, Some(<<"x">>)) >>)])
\* the call id of the call of index 2, after its name
P_ToolId == DeltaChunk([EmptyDelta EXCEPT !.tool_calls =
              Some(<< ToolCallDelta(2, Some("c2"), None, Some(<<"y">>)) >>)])
P_Reasoning == DeltaChunk([EmptyDelta EXCEPT !.reasoning_content = Some(<<"r">>)])
\* an opening tag split over two content deltas, and one that arrives whole
P_XmlHead == DeltaChunk([EmptyDelta EXCEPT !.content = Some(StringValue(<<"<","f","u","n","c">>))])
P_XmlTail ==
    DeltaChunk([EmptyDelta EXCEPT !.content = Some(StringValue(<<"t","i","o","n","=","f",">">>))])
P_XmlOpen ==
    DeltaChunk([EmptyDelta EXCEPT !.content = Some(StringValue(TAG_FUNCTION \o <<"f",">">>))])
\* the usage chunk of a stream asked for with include_usage: no choices
P_Usage ==
    Json([EmptyChunk EXCEPT !.usage = Some([prompt_tokens |-> Some(3),
                                            completion_tokens |-> Some(5)])])
\* a chunk that has a choice and usage
P_FinishUsage ==
    Json([EmptyChunk EXCEPT
            !.choices = << [EmptyChoice EXCEPT !.finish_reason = Some("tool_calls")] >>,
            !.usage = Some([prompt_tokens |-> Some(7), completion_tokens |-> Some(9)])])

\* the payloads that end the loop
IsTerminal(p) == p.data = "[DONE]" \/ (p.data = "json" /\ IsSome(p.chunk.error))

Payloads ==
    { P_Done, P_Error, P_Garbage, P_Text, P_Xml, P_XmlParam, P_Tool, P_Tool2, P_Reasoning,
      FinishChunk("stop"), FinishChunk("length"), FinishChunk("content_filter") }

\* the payloads of the streams that carry usage, finish reasons and split tags
StreamPayloads ==
    { P_Done, P_Error, P_Text, P_XmlHead, P_XmlTail, P_XmlOpen, P_Usage, P_FinishUsage,
      FinishChunk("stop"), FinishChunk("length"), FinishChunk("content_filter") }

\* the payloads of the streams of tool calls, one with a name that comes late
\* or never
ToolPayloads ==
    { P_Done, P_Error, P_Text, P_Reasoning, P_XmlParam, P_Tool, P_ToolArgs, P_Tool2, P_ToolId,
      FinishChunk("stop") }

\* one native tool-call delta in a delta that also carries content: text, a
\* whole XML call, an opening tag alone
MixedDelta(text) ==
    DeltaChunk([EmptyDelta EXCEPT
                  !.content = Some(StringValue(text)),
                  !.tool_calls =
                      Some(<< ToolCallDelta(0, Some("c1"), Some(<<"g">>), Some(<<"{","}">>)) >>)])
P_TextTool == MixedDelta(Text_hi)
P_XmlTool == MixedDelta(Text_call_f)
P_OpenTool == MixedDelta(TAG_FUNCTION \o <<"f",">">>)

\* the payloads of the streams whose deltas carry content and tool_calls
MixedPayloads ==
    { P_Done, P_Error, P_Text, P_Tool, P_TextTool, P_XmlTool, P_OpenTool, FinishChunk("stop") }

\* ---------------------------------------------------- upstream error body

MAX_ERROR_BODY_SIZE == 10 * 1024

\* An error body is a sequence of runs [width, count]: count characters whose
\* UTF-8 encoding takes width bytes each
RECURSIVE ByteLen(_)
ByteLen(b) == IF b = << >> THEN 0 ELSE Head(b).width * Head(b).count + ByteLen(Tail(b))

\* str::is_char_boundary
RECURSIVE IsCharBoundary(_, _)
IsCharBoundary(b, n) ==
    IF n = 0 THEN TRUE
    ELSE IF b = << >> THEN FALSE
    ELSE IF n <= Head(b).width * Head(b).count THEN n % Head(b).width = 0
    ELSE IsCharBoundary(Tail(b), n - Head(b).width * Head(b).count)

Run_(width, count) == [width |-> width, count |-> count]

\* the first n bytes of a body, read as from_utf8_lossy reads them: a
\* character cut short becomes one U+FFFD, three bytes long
RECURSIVE TakeBytes(_, _)
TakeBytes(b, n) ==
    IF b = << >> \/ n = 0 THEN << >>
    ELSE IF Head(b).width * Head(b).count <= n
    THEN << Head(b) >> \o TakeBytes(Tail(b), n - Head(b).width * Head(b).count)
    ELSE (IF n \div Head(b).width > 0
          THEN << Run_(Head(b).width, n \div Head(b).width) >> ELSE << >>)
         \o (IF n % Head(b).width # 0 THEN << Run_(3, 1) >> ELSE << >>)

\* b"... (truncated)"
TruncationMarker == [width |-> 1, count |-> 15, marker |-> TRUE]

\* `while let Some(chunk_result) = body.next().await` over the chunks of the
\* body: the marker is added when a chunk arrives after the limit was reached
RECURSIVE ReadChunks(_, _, _)
ReadChunks(chunks, bytes, total) ==
    IF chunks = << >> THEN bytes
    ELSE IF MAX_ERROR_BODY_SIZE - total <= 0 THEN Append(bytes, TruncationMarker)
    ELSE Bind(IF ByteLen(Head(chunks)) < MAX_ERROR_BODY_SIZE - total
              THEN ByteLen(Head(chunks)) ELSE MAX_ERROR_BODY_SIZE - total,
              LAMBDA to_take :
                 ReadChunks(Tail(chunks), bytes \o TakeBytes(Head(chunks), to_take),
                            total + to_take))

\* read_bounded_error for a body that arrives as one chunk of valid UTF-8:
\* at most MAX_ERROR_BODY_SIZE bytes are taken, and no further chunk arrives
\* to add the truncation marker
read_bounded_error(b) == ReadChunks(<< b >>, << >>, 0)

\* &error_body[..error_body.len().min(200)] panics when the cut is not at a
\* character boundary
ErrorLogPanics(b) ==
    ~IsCharBoundary(b, IF ByteLen(b) < 200 THEN ByteLen(b) ELSE 200)

\* the error bodies an upstream can send: empty, short, ASCII across byte
\* 200, a two- or three-byte character across byte 200, and one over the limit
ErrorBodies ==
    { << >>,
      << Run_(1, 40) >>,
      << Run_(2, 40) >>,
      << Run_(1, 300) >>,
      << Run_(1, 199), Run_(2, 1) >>,
      << Run_(1, 199), Run_(3, 1), Run_(1, 10) >>,
      << Run_(1, 200), Run_(3, 1) >>,
      << Run_(1, MAX_ERROR_BODY_SIZE - 1), Run_(2, 1) >> }

\* ---------------------------------------------------------------- actions

\* the streaming task about to take a step
Run == [st |-> st, ev |-> << >>, xml_indices |-> xml_indices,
        native_indices |-> native_indices]

Out == [sequencer |-> sequencer, channel |-> Unwrap(channel),
        send_failed |-> send_failed, open |-> client_open]

OutResult(o) ==
    /\ sequencer' = o.sequencer
    /\ channel' = Some(o.channel)
    /\ send_failed' = o.send_failed

\* the task's variables after a step that did u
TaskResult(u) ==
    /\ st' = u.st
    /\ xml_indices' = u.xml_indices
    /\ native_indices' = u.native_indices
    /\ \E o \in {DispatchAll(Out, u.ev)} : OutResult(o)

TaskUnchanged == UNCHANGED <<st, sequencer, channel, send_failed, xml_indices, native_indices>>

SSE == Some([status |-> 200, code |-> "text/event-stream"])

\* create_response returns before the circuit-breaker gate
RejectBeforeGate ==
    /\ pc = "start"
    /\ IsSome(PreGateCheck(req))
    /\ http' = PreGateCheck(req)
    /\ pc' = "done"
    /\ UNCHANGED <<fn_in, fn_out, cb_log, req, resp, upstream_calls, cb, cb_tasks, cb_calls, client_open,
                   nread, body, chat_req, error_body>>
    /\ TaskUnchanged

\* a gate that rejects after the request has gone to the upstream
RejectCircuitOpen_Sending ==
    /\ pc = "start"
    /\ PreGateCheck(req) = None
    /\ ~should_allow_request(cb).allow
    /\ cb' = should_allow_request(cb).cb
    /\ upstream_calls' = upstream_calls + 1
    /\ http' = Reject(503, "backend_unavailable_circuit_open")
    /\ pc' = "done"
    /\ UNCHANGED <<fn_in, fn_out, cb_log, req, resp, cb_tasks, cb_calls, client_open, nread, body, chat_req,
                   error_body>>
    /\ TaskUnchanged

\* the gate rejects
RejectCircuitOpen ==
    /\ pc = "start"
    /\ PreGateCheck(req) = None
    /\ ~should_allow_request(cb).allow
    /\ cb' = should_allow_request(cb).cb
    /\ http' = Reject(503, "backend_unavailable_circuit_open")
    /\ pc' = "done"
    /\ UNCHANGED <<fn_in, fn_out, cb_log, req, resp, upstream_calls, cb_tasks, cb_calls, client_open,
                   nread, body, chat_req, error_body>>
    /\ TaskUnchanged

\* a rejection after the gate that is counted as a failure of the upstream
RejectAfterGate_Recording ==
    /\ pc = "start"
    /\ PreGateCheck(req) = None
    /\ should_allow_request(cb).allow
    /\ IsSome(PostGateCheck(req))
    /\ cb' = should_allow_request(cb).cb
    /\ cb_tasks' = record_circuit_breaker_failure(cb_tasks)
    /\ cb_calls' = record_circuit_breaker_failure(cb_calls)
    /\ http' = PostGateCheck(req)
    /\ pc' = "done"
    /\ UNCHANGED <<fn_in, fn_out, cb_log, req, resp, upstream_calls, client_open,
                   nread, body, chat_req, error_body>>
    /\ TaskUnchanged

\* the gate admits, a later check rejects
RejectAfterGate ==
    /\ pc = "start"
    /\ PreGateCheck(req) = None
    /\ should_allow_request(cb).allow
    /\ IsSome(PostGateCheck(req))
    /\ cb' = should_allow_request(cb).cb
    /\ http' = PostGateCheck(req)
    /\ pc' = "done"
    /\ UNCHANGED <<fn_in, fn_out, cb_log, req, resp, upstream_calls, cb_tasks, cb_calls, client_open,
                   nread, body, chat_req, error_body>>
    /\ TaskUnchanged

\* every check passes: backend_req.json(&chat_req).send()
SendRequest ==
    /\ pc = "start"
    /\ PreGateCheck(req) = None
    /\ should_allow_request(cb).allow
    /\ PostGateCheck(req) = None
    /\ cb' = should_allow_request(cb).cb
    /\ chat_req' = Some(convert_to_chat_completions(req))
    /\ upstream_calls' = upstream_calls + 1
    /\ pc' = "sent"
    /\ UNCHANGED <<fn_in, fn_out, cb_log, req, resp, http, cb_tasks, cb_calls, client_open, nread, body,
                   error_body>>
    /\ TaskUnchanged

\* send() fails: the map_err closure, then `?`
BackendUnreachable ==
    /\ pc = "sent"
    /\ resp' = Some([status |-> 0, models |-> FALSE])
    /\ cb_tasks' = record_circuit_breaker_failure(cb_tasks)
    /\ cb_calls' = record_circuit_breaker_failure(cb_calls)
    /\ http' = Reject(502, "backend_unavailable")
    /\ pc' = "done"
    /\ UNCHANGED <<fn_in, fn_out, cb_log, req, upstream_calls, cb, client_open, nread, body, chat_req, error_body>>
    /\ TaskUnchanged

\* a non-2xx status: the failure is recorded, the error body read and
\* logged, the channel made and send_error_response spawns its task; models
\* tells whether the model cache is non-empty, log_error whether the logger
\* takes records of level Error
BackendError ==
    /\ pc = "sent"
    /\ \E status \in {404, 500}, models \in BOOLEAN, b \in ErrorBodies, log_error \in BOOLEAN :
          /\ ~(log_error /\ ErrorLogPanics(read_bounded_error(b)))
          /\ resp' = Some([status |-> status, models |-> models])
          /\ error_body' = Some(read_bounded_error(b))
    /\ cb_tasks' = record_circuit_breaker_failure(cb_tasks)
    /\ cb_calls' = record_circuit_breaker_failure(cb_calls)
    /\ channel' = Some(<< >>)
    /\ http' = SSE
    /\ pc' = "error_task"
    /\ UNCHANGED <<fn_in, fn_out, cb_log, req, upstream_calls, cb, client_open, nread, body, chat_req, st, sequencer,
                   send_failed, xml_indices, native_indices>>

\* a non-2xx status whose error body cannot be cut at byte 200 for the log
\* line: the handler panics after the failure is recorded and before the
\* channel exists, so the connection ends without a response
BackendErrorPanic ==
    /\ pc = "sent"
    /\ \E status \in {404, 500}, b \in ErrorBodies :
          /\ ErrorLogPanics(read_bounded_error(b))
          /\ resp' = Some([status |-> status, models |-> FALSE])
          /\ error_body' = Some(read_bounded_error(b))
    /\ cb_tasks' = record_circuit_breaker_failure(cb_tasks)
    /\ cb_calls' = record_circuit_breaker_failure(cb_calls)
    /\ pc' = "panicked"
    /\ UNCHANGED <<fn_in, fn_out, cb_log, req, http, channel, upstream_calls, cb, client_open, nread, body, chat_req,
                   st, sequencer, send_failed, xml_indices, native_indices>>

ErrorCode(r) == IF r.status = 404 /\ r.models THEN "model_not_found" ELSE "backend_error"

\* the task of send_error_response
ErrorTask ==
    /\ pc = "error_task"
    /\ \E o \in {ChannelSend(Out, ErrorEvent(ErrorCode(Unwrap(resp))))} : OutResult(o)
    /\ pc' = "done"
    /\ UNCHANGED <<fn_in, fn_out, cb_log, req, resp, http, upstream_calls, cb, cb_tasks, cb_calls, client_open,
                   nread, body, chat_req, error_body,
                   st, xml_indices, native_indices>>

\* a 2xx status: the channel is made and the streaming task spawned
BackendSuccess ==
    /\ pc = "sent"
    /\ resp' = Some([status |-> 200, models |-> FALSE])
    /\ channel' = Some(<< >>)
    /\ http' = SSE
    /\ pc' = "preamble"
    /\ UNCHANGED <<fn_in, fn_out, cb_log, req, upstream_calls, cb, cb_tasks, cb_calls, client_open, nread, body,
                   chat_req, error_body, st, sequencer, send_failed, xml_indices, native_indices>>

RunPreamble ==
    /\ pc = "preamble"
    /\ TaskResult(Preamble(Run))
    /\ pc' = "streaming"
    /\ UNCHANGED <<fn_in, fn_out, cb_log, req, resp, http, upstream_calls, cb, cb_tasks, cb_calls, client_open,
                   nread, body, chat_req, error_body>>

\* the loop body for the next payload of the body
ReadFrom(payloads, bound) ==
    /\ pc = "streaming"
    /\ \E p \in payloads :
          /\ nread < bound \/ IsTerminal(p)
          /\ \E r \in {ProcessPayload(Run, p)} :
                /\ TaskResult(r.u)
                /\ pc' = IF r.brk THEN "finalise" ELSE "streaming"
          /\ body' = Append(body, p)
    /\ nread' = nread + 1
    /\ UNCHANGED <<fn_in, fn_out, cb_log, req, resp, http, upstream_calls, cb, cb_tasks, cb_calls, client_open,
                   chat_req, error_body>>

ReadPayload == ReadFrom(Payloads, MaxPayloads)

\* bytes_stream.next() returns None
EndOfBody ==
    /\ pc = "streaming"
    /\ pc' = "finalise"
    /\ UNCHANGED <<fn_in, fn_out, cb_log, req, resp, http, upstream_calls, cb, cb_tasks, cb_calls, client_open,
                   nread, body, chat_req, error_body>>
    /\ TaskUnchanged

\* bytes_stream.next() returns an error
ReadError ==
    /\ pc = "streaming"
    /\ pc' = "finalise"
    /\ UNCHANGED <<fn_in, fn_out, cb_log, req, resp, http, upstream_calls, cb, cb_tasks, cb_calls, client_open,
                   nread, body, chat_req, error_body>>
    /\ TaskUnchanged

\* Phase C and the spawn of the record_success task
RunFinalise ==
    /\ pc = "finalise"
    /\ \E u \in {Finalise(Run)} : TaskResult(u)
    /\ cb_tasks' = SpawnRecordSuccess(cb_tasks)
    /\ cb_calls' = SpawnRecordSuccess(cb_calls)
    /\ pc' = "done"
    /\ UNCHANGED <<fn_in, fn_out, cb_log, req, resp, http, upstream_calls, cb, client_open, nread, body, chat_req, error_body>>

\* a spawned record task gets the write lock
RunRecordFailure ==
    /\ cb_tasks.failure > 0
    /\ cb_tasks' = [cb_tasks EXCEPT !.failure = @ - 1]
    /\ cb' = record_failure(cb)
    /\ cb_log' = Append(cb_log, "record_failure")
    /\ UNCHANGED <<fn_in, fn_out, pc, req, resp, http, upstream_calls, cb_calls, client_open,
                   nread, body, chat_req, error_body>>
    /\ TaskUnchanged

RunRecordSuccess ==
    /\ cb_tasks.success > 0
    /\ cb_tasks' = [cb_tasks EXCEPT !.success = @ - 1]
    /\ cb' = record_success(cb)
    /\ cb_log' = Append(cb_log, "record_success")
    /\ UNCHANGED <<fn_in, fn_out, pc, req, resp, http, upstream_calls, cb_calls, client_open,
                   nread, body, chat_req, error_body>>
    /\ TaskUnchanged

\* the cooldown of an open breaker runs out
CooldownElapses ==
    /\ cb.is_open /\ cb.cooling
    /\ cb' = [cb EXCEPT !.cooling = FALSE]
    /\ cb_log' = Append(cb_log, "cooldown")
    /\ UNCHANGED <<fn_in, fn_out, pc, req, resp, http, upstream_calls, cb_tasks, cb_calls, client_open,
                   nread, body, chat_req, error_body>>
    /\ TaskUnchanged

\* the client closes the SSE connection
ClientClose ==
    /\ IsSome(channel)
    /\ client_open
    /\ client_open' = FALSE
    /\ UNCHANGED <<fn_in, fn_out, cb_log, pc, req, resp, http, upstream_calls, cb, cb_tasks, cb_calls,
                   nread, body, chat_req, error_body>>
    /\ TaskUnchanged

\* the breaker as earlier requests can have left it
BreakerStates ==
    { [enabled |-> TRUE, consecutive_failures |-> 0, is_open |-> FALSE,
       cooling |-> FALSE, probing |-> FALSE],
      [enabled |-> FALSE, consecutive_failures |-> 0, is_open |-> FALSE,
       cooling |-> FALSE, probing |-> FALSE],
      [enabled |-> TRUE, consecutive_failures |-> FailureThreshold - 1, is_open |-> FALSE,
       cooling |-> FALSE, probing |-> FALSE],
      [enabled |-> TRUE, consecutive_failures |-> FailureThreshold, is_open |-> TRUE,
       cooling |-> TRUE, probing |-> FALSE] }

InitCall(requests, breakers, arguments) ==
    /\ pc = "start"
    /\ req \in requests
    /\ resp = None
    /\ http = None
    /\ upstream_calls = 0
    /\ cb \in breakers
    /\ cb_tasks = [failure |-> 0, success |-> 0]
    /\ cb_calls = [failure |-> 0, success |-> 0]
    /\ cb_log = << >>
    /\ fn_in \in arguments
    /\ fn_out = None
    /\ client_open = TRUE
    /\ channel = None
    /\ send_failed = FALSE
    /\ sequencer = EventSequencer_new
    /\ st = StreamLocals
    /\ nread = 0
    /\ body = << >>
    /\ chat_req = None
    /\ error_body = None
    /\ xml_indices = {}
    /\ native_indices = {}

InitWith(requests, breakers) == InitCall(requests, breakers, {None})

Init == InitWith(Requests, BreakerStates)

Next ==
    \/ RejectBeforeGate
    \/ RejectCircuitOpen
    \/ RejectAfterGate
    \/ SendRequest
    \/ BackendUnreachable
    \/ BackendError
    \/ BackendErrorPanic
    \/ ErrorTask
    \/ BackendSuccess
    \/ RunPreamble
    \/ ReadPayload
    \/ EndOfBody
    \/ ReadError
    \/ RunFinalise
    \/ RunRecordFailure
    \/ RunRecordSuccess
    \/ CooldownElapses
    \/ ClientClose

Spec == Init /\ [][Next]_vars

\* The same with the runtime's scheduling: the handler and every spawned task
\* that can take a step does so in the end
SpecLive == Init /\ [][Next]_vars /\ WF_vars(Next)


\* One stream in full: a valid request through a closed breaker, the body
\* drawn from StreamPayloads, a client that may go away at any point
MaxStreamPayloads == 3

ReadStreamPayload == ReadFrom(StreamPayloads, MaxStreamPayloads)

InitStream ==
    InitWith({ValidRequest},
             { [enabled |-> TRUE, consecutive_failures |-> 0, is_open |-> FALSE,
                cooling |-> FALSE, probing |-> FALSE] })

NextStream ==
    \/ SendRequest
    \/ BackendSuccess
    \/ RunPreamble
    \/ ReadStreamPayload
    \/ EndOfBody
    \/ ReadError
    \/ RunFinalise
    \/ ClientClose

SpecStream == InitStream /\ [][NextStream]_vars

\* The same for a body drawn from ToolPayloads
MaxToolPayloads == 3

ReadToolPayload == ReadFrom(ToolPayloads, MaxToolPayloads)

NextTools ==
    \/ SendRequest
    \/ BackendSuccess
    \/ RunPreamble
    \/ ReadToolPayload
    \/ EndOfBody
    \/ ReadError
    \/ RunFinalise
    \/ ClientClose

SpecTools == InitStream /\ [][NextTools]_vars

\* The same for a body drawn from MixedPayloads
MaxMixedPayloads == 3

ReadMixedPayload == ReadFrom(MixedPayloads, MaxMixedPayloads)

NextMixed ==
    \/ SendRequest
    \/ BackendSuccess
    \/ RunPreamble
    \/ ReadMixedPayload
    \/ EndOfBody
    \/ ReadError
    \/ RunFinalise
    \/ ClientClose

SpecMixed == InitStream /\ [][NextMixed]_vars

\* The translation of the request alone: a valid request with any bounded
\* tool list, a closed breaker, up to the request being sent
InitConv ==
    InitWith({ [ValidRequest EXCEPT !.tools = t] : t \in ToolLists },
             { [enabled |-> TRUE, consecutive_failures |-> 0, is_open |-> FALSE,
                cooling |-> FALSE, probing |-> FALSE] })

NextConv == SendRequest

SpecConv == InitConv /\ [][NextConv]_vars

\* The breaker under the requests of a whole process: each request's outcome
\* spawns a record task, the tasks take the lock in any order, requests come
\* to the gate and the cooldown runs out
MaxCalls == 4

OtherRequestFails ==
    /\ Len(cb_log) + cb_tasks.failure + cb_tasks.success < MaxCalls
    /\ cb_tasks' = record_circuit_breaker_failure(cb_tasks)
    /\ UNCHANGED <<fn_in, fn_out, cb_log, pc, req, resp, http, upstream_calls, cb, cb_calls, client_open,
                   nread, body, chat_req, error_body>>
    /\ TaskUnchanged

OtherRequestSucceeds ==
    /\ Len(cb_log) + cb_tasks.failure + cb_tasks.success < MaxCalls
    /\ cb_tasks' = SpawnRecordSuccess(cb_tasks)
    /\ UNCHANGED <<fn_in, fn_out, cb_log, pc, req, resp, http, upstream_calls, cb, cb_calls, client_open,
                   nread, body, chat_req, error_body>>
    /\ TaskUnchanged

OtherRequestAtGate ==
    /\ cb' = should_allow_request(cb).cb
    /\ UNCHANGED <<fn_in, fn_out, cb_log, pc, req, resp, http, upstream_calls, cb_tasks, cb_calls,
                   client_open, nread, body, chat_req, error_body>>
    /\ TaskUnchanged

InitBreaker ==
    InitWith({ValidRequest},
             { [enabled |-> e, consecutive_failures |-> 0, is_open |-> FALSE,
                cooling |-> FALSE, probing |-> FALSE] : e \in BOOLEAN })

NextBreaker ==
    \/ OtherRequestFails
    \/ OtherRequestSucceeds
    \/ OtherRequestAtGate
    \/ RunRecordFailure
    \/ RunRecordSuccess
    \/ CooldownElapses

SpecBreaker == InitBreaker /\ [][NextBreaker]_vars

\* The translation of the input alone: a valid request with any bounded list
\* of input items, with and without instructions, up to the request being sent
ArrayInput(items) == Some([k |-> "array", s |-> << >>, items |-> items])

InitInput ==
    InitWith({ [ValidRequest EXCEPT !.input = ArrayInput(items),
                                    !.items_len = Some(Len(items)),
                                    !.input_size = Some(Len(items)),
                                    !.instructions_len = n]
               : items \in ItemLists, n \in {None, Some(1)} },
             { [enabled |-> TRUE, consecutive_failures |-> 0, is_open |-> FALSE,
                cooling |-> FALSE, probing |-> FALSE] })

NextInput == SendRequest

SpecInput == InitInput /\ [][NextInput]_vars

\* The salvager applied on its own to texts made of segments: plain text,
\* blocks <function=NAME>...</function>, blocks closed by </tool_call>, and
\* the markers in either case
MaxSegments == 3
MaxMarkers == 2

Segment(text, call) == [text |-> text, call |-> call]

BlockSegments ==
    { Segment(Text_call_f, Some([name |-> <<"f">>, arguments |-> <<"{","}">>])),
      Segment(Text_call_f_k,
              Some([name |-> <<"f">>,
                    arguments |-> <<"{","\"","k","\"",":","\"","v","\"","}">>])),
      Segment(TAG_FUNCTION \o <<"g",">">> \o TAG_PARAMETER \o <<"j",">","w">>
              \o TAG_PARAMETER_END \o TAG_TOOL_CALL_END,
              Some([name |-> <<"g">>,
                    arguments |-> <<"{","\"","j","\"",":","\"","w","\"","}">>])),
      Segment(TAG_FUNCTION \o <<"h",">">> \o TAG_PARAMETER \o <<"a",">","1">>
              \o TAG_PARAMETER_END \o <<"\n">> \o TAG_PARAMETER \o <<"b",">","2"," ">>
              \o TAG_PARAMETER_END \o TAG_FUNCTION_END,
              Some([name |-> <<"h">>,
                    arguments |-> <<"{","\"","a","\"",":","\"","1","\"",",",
                                    "\"","b","\"",":","\"","2","\"","}">>])) }

TextSegments == { Segment(<<" ","x"," ">>, None) }

MarkerSegments ==
    { Segment(<<"x">>, None), Segment(<<" ">>, None), Segment(<<"=">>, None),
      Segment(TAG_FUNCTION, None), Segment(TAG_FUNCTION_END, None),
      Segment(TAG_TOOL_CALL, None), Segment(TAG_TOOL_CALL_END, None),
      Segment(TAG_PARAMETER, None),
      Segment(<<"<","F","U","N","C","T","I","O","N","=">>, None),
      Segment(<<"<","/","T","o","o","l","_","C","a","l","l",">">>, None),
      Segment(<<"<","f","u","n","c","t","i","o","n">>, None),
      Segment(<<"<","p","a","r","a","m","e","t","e","r">>, None) }

RECURSIVE TextOf(_)
TextOf(segs) == IF segs = << >> THEN << >> ELSE Head(segs).text \o TextOf(Tail(segs))

XmlArguments ==
    { [f |-> "extract_xml_tool_calls", segs |-> segs] :
        segs \in UNION { [1..n -> BlockSegments \cup TextSegments] : n \in 0..MaxSegments }
                 \cup UNION { [1..n -> MarkerSegments] : n \in 0..MaxMarkers } }

\* extract_xml_tool_calls(text), and what its contains_xml_tool_call answered
ApplyExtract ==
    /\ fn_in # None
    /\ fn_in.f = "extract_xml_tool_calls"
    /\ fn_out = None
    /\ fn_out' = Some([result |-> extract_xml_tool_calls(TextOf(fn_in.segs)),
                       detected |-> contains_xml_tool_call(TextOf(fn_in.segs))])
    /\ UNCHANGED <<fn_in, cb_log, pc, req, resp, http, upstream_calls, cb, cb_tasks, cb_calls,
                   client_open, nread, body, chat_req, error_body>>
    /\ TaskUnchanged

\* read_bounded_error on a body that arrives in chunks
ApplyRead ==
    /\ fn_in # None
    /\ fn_in.f = "read_bounded_error"
    /\ fn_out = None
    /\ fn_out' = Some(ReadChunks(fn_in.chunks, << >>, 0))
    /\ UNCHANGED <<fn_in, cb_log, pc, req, resp, http, upstream_calls, cb, cb_tasks, cb_calls,
                   client_open, nread, body, chat_req, error_body>>
    /\ TaskUnchanged

\* the chunks of an error body: one byte, just under the limit, the limit,
\* over the limit, and a two-byte character across the limit
MaxChunks == 3

Chunks ==
    { << Run_(1, 1) >>,
      << Run_(1, MAX_ERROR_BODY_SIZE - 1) >>,
      << Run_(1, MAX_ERROR_BODY_SIZE) >>,
      << Run_(1, MAX_ERROR_BODY_SIZE + 1) >>,
      << Run_(1, MAX_ERROR_BODY_SIZE - 1), Run_(2, 1) >> }

ReadArguments ==
    { [f |-> "read_bounded_error", chunks |-> c] :
        c \in UNION { [1..n -> Chunks] : n \in 0..MaxChunks } }

InitRead ==
    InitCall({ValidRequest},
             { [enabled |-> TRUE, consecutive_failures |-> 0, is_open |-> FALSE,
                cooling |-> FALSE, probing |-> FALSE] },
             ReadArguments)

NextRead == ApplyRead

SpecRead == InitRead /\ [][NextRead]_vars

\* extract_text_delta on one JSON value
ApplyTextDelta ==
    /\ fn_in # None
    /\ fn_in.f = "extract_text_delta"
    /\ fn_out = None
    /\ fn_out' = Some(extract_text_delta(fn_in.value))
    /\ UNCHANGED <<fn_in, cb_log, pc, req, resp, http, upstream_calls, cb, cb_tasks, cb_calls,
                   client_open, nread, body, chat_req, error_body>>
    /\ TaskUnchanged

\* JSON values a delta.content can hold: strings, one of them empty, objects
\* with and without a text type and a text field, a number, arrays of these
\* and arrays in arrays
MaxParts == 2

ObjectValue(type_, text) == [k |-> "object", type_ |-> type_, text |-> text]
ArrayValue(items) == [k |-> "array", items |-> items]

PartValues ==
    { StringValue(<< >>), StringValue(<<"a">>), StringValue(<<"b">>),
      ObjectValue("text", Some(<<"c">>)), ObjectValue("output_text", Some(<< >>)),
      ObjectValue("text", None), ObjectValue("image", Some(<<"d">>)),
      [k |-> "number"],
      ArrayValue(<< >>), ArrayValue(<< StringValue(<<"a">>), StringValue(<< >>) >>) }

TextArguments ==
    { [f |-> "extract_text_delta", value |-> v] :
        v \in PartValues \cup { ArrayValue(items) :
                                  items \in UNION { [1..n -> PartValues] : n \in 0..MaxParts } } }

InitText ==
    InitCall({ValidRequest},
             { [enabled |-> TRUE, consecutive_failures |-> 0, is_open |-> FALSE,
                cooling |-> FALSE, probing |-> FALSE] },
             TextArguments)

NextText == ApplyTextDelta

SpecText == InitText /\ [][NextText]_vars

\* convert_response_content on one array of content parts
ApplyConvertContent ==
    /\ fn_in # None
    /\ fn_in.f = "convert_response_content"
    /\ fn_out = None
    /\ fn_out' = Some(convert_response_content(fn_in.content))
    /\ UNCHANGED <<fn_in, cb_log, pc, req, resp, http, upstream_calls, cb, cb_tasks, cb_calls,
                   client_open, nread, body, chat_req, error_body>>
    /\ TaskUnchanged

\* the parts of a message content: texts of both kinds, reasoning, an image
MaxContentParts == 3

ContentParts ==
    { TextPart("input_text", <<"u">>), TextPart("output_text", <<"b">>),
      TextPart("reasoning", <<"q">>), TextPart("reasoning", <<"s">>), ImagePart(<<"p">>) }

ContentArguments ==
    { [f |-> "convert_response_content", content |-> ArrayContent(parts)] :
        parts \in UNION { [1..n -> ContentParts] : n \in 0..MaxContentParts } }

InitParts ==
    InitCall({ValidRequest},
             { [enabled |-> TRUE, consecutive_failures |-> 0, is_open |-> FALSE,
                cooling |-> FALSE, probing |-> FALSE] },
             ContentArguments)

NextParts == ApplyConvertContent

SpecParts == InitParts /\ [][NextParts]_vars

InitXml ==
    InitCall({ValidRequest},
             { [enabled |-> TRUE, consecutive_failures |-> 0, is_open |-> FALSE,
                cooling |-> FALSE, probing |-> FALSE] },
             XmlArguments)

NextXml == ApplyExtract

SpecXml == InitXml /\ [][NextXml]_vars

\* The translation of message contents and reasoning: a valid request with
\* any bounded list of messages of both content variants and reasoning items
MaxContentItems == 3

ContentItems ==
    { InputMessage("assistant", StringContent(<<"a">>)),
      InputMessage("assistant",
                   ArrayContent(<< ImagePart(<<"p">>), TextPart("output_text", <<"b">>) >>)),
      InputMessage("assistant",
                   ArrayContent(<< TextPart("reasoning", <<"s">>),
                                   TextPart("output_text", <<"b">>) >>)),
      InputMessage("user", StringContent(<<"u">>)),
      InputMessage("user",
                   ArrayContent(<< TextPart("input_text", <<"u">>),
                                   TextPart("reasoning", <<"q">>) >>)),
      InputReasoning(Some(<<"r">>), None),
      InputReasoning(None, Some(<<"e">>)) }

InitContent ==
    InitWith({ [ValidRequest EXCEPT !.input = ArrayInput(items),
                                    !.items_len = Some(Len(items)),
                                    !.input_size = Some(Len(items))]
               : items \in UNION { [1..n -> ContentItems] : n \in 0..MaxContentItems } },
             { [enabled |-> TRUE, consecutive_failures |-> 0, is_open |-> FALSE,
                cooling |-> FALSE, probing |-> FALSE] })

NextContent == SendRequest

SpecContent == InitContent /\ [][NextContent]_vars

\* ------------------------------------------------------------- properties

\* the upstream answered 2xx: the streaming task runs
Streaming == resp = Some([status |-> 200, models |-> FALSE])

\* the events the client has been sent
Sent == IF IsSome(channel) THEN Unwrap(channel) ELSE << >>

IsTerminalEvent(e) == e.type_ \in {"response.completed", "response.failed"}

\* every send so far has succeeded and the task has finished
Delivered == pc = "done" /\ IsSome(channel) /\ ~send_failed

\* C1: on the streaming path the i-th event sent to the client carries
\* sequence_number i (1, 2, 3, ... without gaps), and as long as no send has
\* failed the sequencer has handed out exactly as many numbers as events sent
C1_SequenceNumbers ==
    Streaming =>
       /\ \A i \in 1..Len(Sent) : Sent[i].sequence_number = Some(i)
       /\ (~send_failed) => (sequencer.next_sequence = Len(Sent))

C1_Witness ==
    /\ Streaming /\ Delivered
    /\ Len(Sent) >= 6
    /\ Sent[6].sequence_number = Some(6)

\* C2: a stream opened towards the client, on the streaming path or on the
\* error path, never carries an event after a terminal event, and once its
\* task has finished with every send delivered its last event is terminal
C2_OneTerminalEvent ==
    /\ \A i \in 1..Len(Sent) : IsTerminalEvent(Sent[i]) => i = Len(Sent)
    /\ Delivered => (Sent # << >> /\ IsTerminalEvent(Sent[Len(Sent)]))

C2_Witness ==
    /\ Streaming /\ Delivered
    /\ body # << >> /\ body[Len(body)] = P_Error
    /\ Len(Sent) > 3
    /\ Sent[Len(Sent)].type_ = "response.completed"

HexChars == { HexDigits[i] : i \in 1..Len(HexDigits) }

\* event_id is evt_<response_id>_ followed by exactly 16 lowercase hex digits
WellFormedEventId(e) ==
    /\ IsSome(e.event_id)
    /\ IsSome(e.response_id)
    /\ LET id == Unwrap(e.event_id)
           prefix == Str_evt \o Unwrap(e.response_id) \o <<"_">>
       IN /\ Len(id) = Len(prefix) + 16
          /\ SubSeq(id, 1, Len(prefix)) = prefix
          /\ \A k \in (Len(prefix) + 1)..Len(id) : id[k] \in HexChars

\* C3: every event sent, the response.failed of the error path included, has
\* an event_id of the form evt_<response_id>_<16 lowercase hex digits>, and
\* no two events of a response share an event_id
C3_EventIds ==
    \A i \in 1..Len(Sent) :
       /\ WellFormedEventId(Sent[i])
       /\ \A j \in 1..Len(Sent) : Sent[i].event_id = Sent[j].event_id => i = j

\* the request to the upstream could not be sent or got no response
Unreachable == resp = Some([status |-> 0, models |-> FALSE])

\* C4: an upstream connection failure records a breaker failure and reaches
\* the client as an SSE stream (HTTP 200) carrying response.failed with code
\* backend_error
C4_ConnectionFailureAsStream ==
    (pc = "done" /\ Unreachable) =>
       /\ cb_calls.failure = 1
       /\ http = SSE
       /\ \E i \in 1..Len(Sent) :
             /\ Sent[i].type_ = "response.failed"
             /\ Unwrap(Unwrap(Sent[i].response).error).code = "backend_error"

\* C5: a streamed response whose final_status is "failed" does not call
\* record_success
C5_NoSuccessWhenFailed ==
    (pc = "done" /\ Streaming /\ st.final_status = "failed") => cb_calls.success = 0

\* C6: no tool_calls index is both given to an XML-salvaged call and named by
\* a native tool-call delta
C6_DisjointIndices == xml_indices \cap native_indices = {}

\* C7: once a send into the event channel has failed, no further payload is
\* read from the upstream and no further event is prepared
C7_SendFailureIsTerminal ==
    [][send_failed => (nread' = nread /\ sequencer' = sequencer)]_vars

\* the tools of the request, an absent list being an empty one
RequestTools == UnwrapOr(req.tools, << >>)

\* the tools of the built request, an omitted field being an empty list
ChatTools == UnwrapOr(Unwrap(chat_req).tools, << >>)

\* the positions of the request's function-typed tools
FunctionPositions == { i \in 1..Len(RequestTools) : RequestTools[i].type_ = "function" }

\* the j-th function-typed tool of the request, re-emitted
ReEmitted(j) ==
    LET k == CHOOSE i \in FunctionPositions :
                Cardinality({ h \in FunctionPositions : h <= i }) = j
        f == function_def(RequestTools[k])
    IN [type_ |-> "function",
        function |-> [name |-> f.name, description |-> f.description,
                      parameters |-> f.parameters]]

\* the file-operation tools no tool of the request is named after
MissingDefaults ==
    SelectSeq(<<"apply_patch", "read_file", "list_dir", "grep_files">>,
              LAMBDA n : \A i \in 1..Len(RequestTools) : function_def(RequestTools[i]).name # n)

\* C8 as stated: the built request's tools are exactly the request's
\* function-typed tools, in order and re-emitted, and the field is omitted
\* when there is none
C8_OnlyFunctionTools ==
    IsSome(chat_req) =>
       /\ Len(ChatTools) = Cardinality(FunctionPositions)
       /\ \A j \in 1..Cardinality(FunctionPositions) : ChatTools[j] = ReEmitted(j)
       /\ (FunctionPositions = {}) => (Unwrap(chat_req).tools = None)

\* C8: the built request's tools are the request's function-typed tools, in
\* order and re-emitted, followed by apply_patch, read_file, list_dir and
\* grep_files, in that order, each only if no tool of the request (of any
\* type) has that name; the field is omitted exactly when that list is empty
C8_FunctionToolsThenDefaults ==
    IsSome(chat_req) =>
       /\ Len(ChatTools) = Cardinality(FunctionPositions) + Len(MissingDefaults)
       /\ \A j \in 1..Cardinality(FunctionPositions) : ChatTools[j] = ReEmitted(j)
       /\ \A j \in 1..Len(MissingDefaults) :
             /\ ChatTools[Cardinality(FunctionPositions) + j].type_ = "function"
             /\ ChatTools[Cardinality(FunctionPositions) + j].function.name
                   = MissingDefaults[j]
       /\ (Unwrap(chat_req).tools = None)
             <=> (FunctionPositions = {} /\ MissingDefaults = << >>)

\* a request with a function tool, a non-function tool named after a default
\* and so fewer than four injected tools
C8_Witness ==
    /\ IsSome(chat_req)
    /\ Len(RequestTools) = MaxTools
    /\ Cardinality(FunctionPositions) = 2
    /\ Len(MissingDefaults) = 2
    /\ \E i \in 1..Len(RequestTools) :
          RequestTools[i].type_ # "function" /\ function_def(RequestTools[i]).name = "read_file"
    /\ Len(ChatTools) = 4

\* the finish_reason a payload carries to the loop
FinishReasonOf(p) ==
    IF p.data = "json" /\ p.chunk.error = None /\ p.chunk.choices # << >>
    THEN p.chunk.choices[1].finish_reason
    ELSE None

HasErrorChunk == \E i \in 1..Len(body) : body[i].data = "json" /\ IsSome(body[i].chunk.error)

FinishPositions == { i \in 1..Len(body) : IsSome(FinishReasonOf(body[i])) }

LastFinishReason ==
    IF FinishPositions = {} THEN None
    ELSE FinishReasonOf(body[CHOOSE i \in FinishPositions : \A h \in FinishPositions : h <= i])

\* the response of the last event sent
LastResponse == Unwrap(Sent[Len(Sent)].response)

\* C9 as stated: once a chunk has carried finish_reason length, the completed
\* event has status incomplete and reason max_output_tokens whatever follows,
\* and incomplete_details is present iff the status is incomplete
C9_LengthIsSticky ==
    (Streaming /\ Delivered) =>
       /\ (\E i \in 1..Len(body) : FinishReasonOf(body[i]) = Some("length"))
             => /\ LastResponse.status = "incomplete"
                /\ LastResponse.incomplete_details = Some([reason |-> "max_output_tokens"])
       /\ IsSome(LastResponse.incomplete_details) <=> (LastResponse.status = "incomplete")

\* C9: the completed event has status incomplete exactly when the last
\* finish_reason processed is length and no error chunk ended the stream; it
\* then has reason max_output_tokens, and incomplete_details is present iff
\* the status is incomplete
C9_LastFinishReasonDecides ==
    (Streaming /\ Delivered) =>
       /\ (LastResponse.status = "incomplete")
             <=> (LastFinishReason = Some("length") /\ ~HasErrorChunk)
       /\ (LastResponse.status = "incomplete")
             => (LastResponse.incomplete_details = Some([reason |-> "max_output_tokens"]))
       /\ IsSome(LastResponse.incomplete_details) <=> (LastResponse.status = "incomplete")

\* length is the last finish_reason, with a chunk processed after it
C9_Witness ==
    /\ Streaming /\ Delivered
    /\ Len(body) >= 2
    /\ FinishReasonOf(body[1]) = Some("length")
    /\ body[2] = P_Text
    /\ LastResponse.status = "incomplete"
    /\ LastResponse.incomplete_details = Some([reason |-> "max_output_tokens"])

\* C10: on the streaming path response.created is sent at most once, and
\* exactly once when every send is delivered; the first three events are
\* response.created (in_progress, empty output), response.output_item.added
\* (message, output_index 0) and response.content_part.added (output_index 0,
\* content_index 0); all three are prepared before any payload of the upstream
\* body is taken, so every other event follows them
C10_Preamble ==
    Streaming =>
       /\ Cardinality({ i \in 1..Len(Sent) : Sent[i].type_ = "response.created" }) <= 1
       /\ (Len(Sent) >= 1) =>
             /\ Sent[1].type_ = "response.created"
             /\ Unwrap(Sent[1].response).status = "in_progress"
             /\ Unwrap(Sent[1].response).output = << >>
       /\ (Len(Sent) >= 2) =>
             /\ Sent[2].type_ = "response.output_item.added"
             /\ Unwrap(Sent[2].item).type_ = "message"
             /\ Sent[2].output_index = Some(0)
       /\ (Len(Sent) >= 3) =>
             /\ Sent[3].type_ = "response.content_part.added"
             /\ Sent[3].output_index = Some(0)
             /\ Sent[3].content_index = Some(0)
       /\ (nread > 0 \/ pc \in {"streaming", "finalise", "done"}) =>
             /\ sequencer.next_sequence >= 3
             /\ (~send_failed) => (Len(Sent) >= 3)
       /\ (nread = 0 /\ pc \in {"preamble", "streaming"}) => (Len(Sent) <= 3)

C10_Witness ==
    /\ Streaming /\ Delivered
    /\ nread > 1
    /\ Len(Sent) > 4
    /\ Sent[4].type_ = "response.output_text.delta"

\* the events sent that have type ty and output_index 0
AtIndex0(ty) == { i \in 1..Len(Sent) : Sent[i].type_ = ty /\ Sent[i].output_index = Some(0) }

\* C11: for the message item at output_index 0, a finished stream carries
\* exactly one output_text.done, one content_part.done and one
\* output_item.done for index 0 if the accumulated text is non-empty at
\* finalisation, and none of them if it is empty; no stream carries more
\* than one output_item.done for the message item
C11_MessageClosedIffText ==
    Streaming =>
       /\ Cardinality({ i \in 1..Len(Sent) :
                          /\ Sent[i].type_ = "response.output_item.done"
                          /\ Sent[i].item_id = Some(message_id) }) <= 1
       /\ Delivered =>
             IF st.accumulated_text # << >>
             THEN /\ Cardinality(AtIndex0("response.output_text.done")) = 1
                  /\ Cardinality(AtIndex0("response.content_part.done")) = 1
                  /\ Cardinality(AtIndex0("response.output_item.done")) = 1
             ELSE /\ AtIndex0("response.output_text.done") = {}
                  /\ AtIndex0("response.content_part.done") = {}
                  /\ AtIndex0("response.output_item.done") = {}

\* a finished stream with text and a tool call: the message item is closed
C11_Witness ==
    /\ Streaming /\ Delivered
    /\ st.accumulated_text = Text_hi
    /\ DOMAIN st.tool_calls # {}
    /\ Cardinality(AtIndex0("response.output_item.done")) = 1

\* an event of a tool call
IsToolCallEvent(e) ==
    \/ e.type_ \in {"response.function_call_arguments.delta",
                    "response.function_call_arguments.done"}
    \/ /\ e.type_ \in {"response.output_item.added", "response.output_item.done"}
       /\ Unwrap(e.item).type_ = "function_call"

\* the native tool-call deltas the body has carried
NativeDeltas ==
    UNION { { Unwrap(Unwrap(body[k].chunk.choices[1].delta).tool_calls)[j] :
                j \in 1..Len(Unwrap(Unwrap(body[k].chunk.choices[1].delta).tool_calls)) } :
            k \in { h \in 1..Len(body) :
                      /\ body[h].data = "json"
                      /\ body[h].chunk.choices # << >>
                      /\ IsSome(body[h].chunk.choices[1].delta)
                      /\ IsSome(Unwrap(body[h].chunk.choices[1].delta).tool_calls) } }

\* the call id of the events of a native delta: the backend's id, or the
\* fallback made of the request id and the backend index
NativeCallId(tc) == UnwrapOr(tc.id, "call_1a_" \o ToString(tc.index))

NonSuccess == IsSome(resp) /\ Unwrap(resp).status \in {404, 500}

\* C13: for a non-2xx upstream response a breaker failure is recorded and,
\* unless the client has gone, the stream is exactly one event:
\* response.failed with sequence_number 1, code model_not_found if the status
\* is 404 and the model cache is non-empty, backend_error otherwise
C13_ErrorStream ==
    (NonSuccess /\ pc \in {"done", "panicked"} /\ ~send_failed) =>
       /\ cb_calls.failure = 1
       /\ http = SSE
       /\ Len(Sent) = 1
       /\ Sent[1].type_ = "response.failed"
       /\ Sent[1].sequence_number = Some(1)
       /\ Unwrap(Unwrap(Sent[1].response).error).code
             = (IF Unwrap(resp).status = 404 /\ Unwrap(resp).models
                THEN "model_not_found" ELSE "backend_error")

\* C14: once a parsed chunk has carried an error no later payload of the
\* body is processed, the delivered stream ends with response.completed of
\* status failed, and no response.failed is sent
C14_ChunkErrorEndsStream ==
    Streaming =>
       /\ \A k \in 1..Len(body) :
             (body[k].data = "json" /\ IsSome(body[k].chunk.error)) => k = Len(body)
       /\ HasErrorChunk =>
             /\ pc \in {"finalise", "done"}
             /\ \A n \in 1..Len(Sent) : Sent[n].type_ # "response.failed"
             /\ Delivered =>
                   /\ Sent[Len(Sent)].type_ = "response.completed"
                   /\ LastResponse.status = "failed"

\* text, then a chunk with an error, delivered to the end
C14_Witness ==
    /\ Streaming /\ Delivered
    /\ body = << P_Text, P_Error >>
    /\ Sent[Len(Sent)].type_ = "response.completed"
    /\ LastResponse.status = "failed"

\* the circuit-breaker gate is reached and rejects
GateRejects == pc = "start" /\ PreGateCheck(req) = None /\ ~should_allow_request(cb).allow

CircuitOpenResponse == Reject(503, "backend_unavailable_circuit_open")

\* C15: when the gate rejects, create_response returns HTTP 503 with code
\* backend_unavailable_circuit_open; a request answered so has no SSE channel
\* and has sent nothing to the upstream
C15_GateRejection ==
    /\ [][(GateRejects /\ pc' # pc) => (http' = CircuitOpenResponse /\ pc' = "done")]_vars
    /\ [](http = CircuitOpenResponse =>
             (channel = None /\ upstream_calls = 0 /\ chat_req = None /\ resp = None))

C15_Witness ==
    /\ pc = "done"
    /\ http = CircuitOpenResponse
    /\ cb.is_open /\ cb.cooling

\* the part of the log after the last record_success
RECURSIVE SinceSuccess(_)
SinceSuccess(log) ==
    IF log = << >> \/ log[Len(log)] = "record_success" THEN << >>
    ELSE Append(SinceSuccess(SubSeq(log, 1, Len(log) - 1)), log[Len(log)])

Count(log, call) == Cardinality({ i \in 1..Len(log) : log[i] = call })

\* failure_threshold or more record_failure calls in a row, the cooldown of
\* the breaker they opened still running
ThresholdReached ==
    /\ Count(SinceSuccess(cb_log), "record_failure") >= FailureThreshold
    /\ Count(SinceSuccess(cb_log), "cooldown") = 0

AfterSuccess == cb_log # << >> /\ cb_log[Len(cb_log)] = "record_success"

\* C16 as stated: after failure_threshold consecutive record_failure() calls
\* with no record_success() between them should_allow_request() returns false
\* within the cooldown, and after a record_success() it returns true with
\* consecutive_failures 0
C16_ThresholdCloses ==
    /\ ThresholdReached => ~should_allow_request(cb).allow
    /\ AfterSuccess => (should_allow_request(cb).allow /\ cb.consecutive_failures = 0)

\* C16: on an enabled breaker, failure_threshold consecutive record_failure()
\* calls make should_allow_request() return false within the cooldown; on
\* any breaker it returns true with consecutive_failures 0 after a
\* record_success()
C16_EnabledThresholdCloses ==
    /\ (cb.enabled /\ ThresholdReached) => ~should_allow_request(cb).allow
    /\ AfterSuccess => (should_allow_request(cb).allow /\ cb.consecutive_failures = 0)

C16_Witness ==
    /\ cb.enabled
    /\ Len(cb_log) > FailureThreshold
    /\ ThresholdReached
    /\ ~should_allow_request(cb).allow

\* the codes of the rejections made before the upstream call, the gate's aside
ValidationCodes ==
    { "invalid_request_format", "background_not_supported",
      "prompt_reference_not_supported", "too_many_messages", "invalid_max_tokens",
      "instructions_too_large", "input_content_too_large", "invalid_top_logprobs",
      "missing_api_key", "invalid_request" }

Rejected == IsSome(http) /\ Unwrap(http).code \in ValidationCodes

\* C17: a request rejected by a check made before the upstream call never
\* causes record_failure() on the breaker, neither spawned nor run, and sends
\* nothing to the upstream
C17_RejectionLeavesBreaker ==
    Rejected =>
        /\ cb_calls.failure = 0
        /\ cb_tasks.failure = 0
        /\ Count(cb_log, "record_failure") = 0
        /\ upstream_calls = 0
        /\ chat_req = None
        /\ resp = None

C17_Witness ==
    /\ pc = "done"
    /\ http = Reject(400, "invalid_request")
    /\ cb_calls.failure = 0
    /\ upstream_calls = 0

\* the streaming loop takes a payload that does not parse as a chunk
ReadsUnparseable == pc = "streaming" /\ body' = Append(body, P_Garbage)

\* C18: a payload that does not parse as a backend chunk emits no event and
\* leaves the locals of the streaming task, the sequencer and the loop where
\* they were, so that the payloads after it meet the state they would have
\* met without it
C18_UnparseableIsDropped ==
    [][ReadsUnparseable =>
          /\ st' = st
          /\ channel' = channel
          /\ sequencer' = sequencer
          /\ send_failed' = send_failed
          /\ xml_indices' = xml_indices
          /\ native_indices' = native_indices
          /\ pc' = "streaming"]_vars

C18_Witness ==
    /\ body = <<P_Garbage, P_Text>>
    /\ st.accumulated_text = Text_hi
    /\ st.last_text_delta = Some(Text_hi)
    /\ st.final_status = "completed"

\* the text a payload's content delta carries, empty when it carries none
ContentTextOf(p) ==
    IF /\ p.data = "json"
       /\ p.chunk.error = None
       /\ p.chunk.choices # << >>
       /\ IsSome(p.chunk.choices[1].delta)
       /\ IsSome(Unwrap(p.chunk.choices[1].delta).content)
    THEN UnwrapOr(extract_text_delta(Unwrap(Unwrap(p.chunk.choices[1].delta).content)), << >>)
    ELSE << >>

\* the content deltas that are one complete <function=f>...</function> call
XmlPayloads == {P_Xml, P_XmlParam}

XmlPositions == { i \in 1..Len(body) : body[i] \in XmlPayloads }

\* the response's only content delta is one such call
OnlyXmlContent ==
    /\ Cardinality(XmlPositions) = 1
    /\ \A i \in 1..Len(body) : ContentTextOf(body[i]) # << >> => i \in XmlPositions

\* the arguments the call's parameters stand for, as JSON text
ExpectedArguments ==
    IF \E i \in XmlPositions : body[i] = P_XmlParam
    THEN <<"{", "\"", "k", "\"", ":", "\"", "v", "\"", "}">>
    ELSE <<"{", "}">>

\* Sent[i] announces the salvaged call and Sent[i + 1] closes its arguments
AnnouncesSalvaged(i) ==
    /\ Sent[i].type_ = "response.output_item.added"
    /\ IsSome(Sent[i].item)
    /\ Unwrap(Sent[i].item).type_ = "function_call"
    /\ Unwrap(Sent[i].item).name = Some(<<"f">>)
    /\ Sent[i].name = Some(<<"f">>)
    /\ Sent[i + 1].type_ = "response.function_call_arguments.done"
    /\ Sent[i + 1].item_id = Sent[i].item_id
    /\ Sent[i + 1].output_index = Sent[i].output_index
    /\ Sent[i + 1].arguments = Some(ExpectedArguments)

\* C19: when the only content delta of a response is one complete XML call
\* <function=f>...</function> and every send succeeds, no
\* response.output_text.delta is sent, the call is announced by
\* output_item.added (function_call, name f) directly followed by
\* function_call_arguments.done with the JSON object of its parameters, the
\* message text stays empty, and no output_text.done, content_part.done or
\* output_item.done for index 0 is sent
C19_SalvagedCall ==
    (Streaming /\ OnlyXmlContent /\ ~send_failed) =>
        /\ \A i \in 1..Len(Sent) : Sent[i].type_ # "response.output_text.delta"
        /\ Cardinality({ i \in 1..(Len(Sent) - 1) : AnnouncesSalvaged(i) }) = 1
        /\ st.accumulated_text = << >>
        /\ AtIndex0("response.output_text.done") = {}
        /\ AtIndex0("response.content_part.done") = {}
        /\ AtIndex0("response.output_item.done") = {}

C19_Witness ==
    /\ Delivered /\ Streaming
    /\ body = <<P_XmlParam, P_Done>>
    /\ Len(Sent) >= 6
    /\ AnnouncesSalvaged(4)
    /\ Sent[Len(Sent)].type_ = "response.completed"

\* the input items of the request and the messages made of them
InputItems == Unwrap(req.input).items

Messages == Unwrap(chat_req).messages

IsAssistantMessage(item) == item.type_ = "message" /\ item.role = Some("assistant")

\* the position in Messages of the message made of item j
MessageOf(j) ==
    (IF IsSome(req.instructions_len) THEN 1 ELSE 0)
    + Cardinality({ k \in 1..j : InputItems[k].type_ \in {"message", "function_call_output"} })

\* the first assistant message item after item i, 0 when there is none
FirstAssistantAfter(i) ==
    LET later == { j \in (i + 1)..Len(InputItems) : IsAssistantMessage(InputItems[j]) }
    IN IF later = {} THEN 0 ELSE MinOf(later)

\* the function_call items whose first later assistant message is item j
CallsFor(j) ==
    { i \in 1..Len(InputItems) :
        InputItems[i].type_ = "function_call" /\ FirstAssistantAfter(i) = j }

\* the i-th smallest member of a set of positions
RECURSIVE Ascending(_)
Ascending(S) == IF S = {} THEN << >> ELSE <<MinOf(S)>> \o Ascending(S \ {MinOf(S)})

ExpectedToolCalls(j) ==
    LET order == Ascending(CallsFor(j))
    IN [n \in 1..Len(order) |->
          [id |-> Unwrap(InputItems[order[n]].call_id), type_ |-> "function",
           function |-> [name |-> Unwrap(InputItems[order[n]].name),
                         arguments |-> Unwrap(InputItems[order[n]].arguments)]]]

RECURSIVE ToolCallCount(_)
ToolCallCount(msgs) ==
    IF msgs = << >> THEN 0
    ELSE (IF IsSome(msgs[1].tool_calls) THEN Len(Unwrap(msgs[1].tool_calls)) ELSE 0)
         + ToolCallCount(Tail(msgs))

ReasoningOf(item) ==
    IF item.type_ = "reasoning"
    THEN (IF IsSome(item.text) THEN << Unwrap(item.text) >> ELSE << >>)
    ELSE IF item.type_ = "message" /\ Unwrap(item.content).k = "array"
    THEN LET parts == SelectSeq(Unwrap(item.content).parts, LAMBDA q : q.type_ = "reasoning")
         IN IF parts = << >> THEN << >>
            ELSE << JoinLines([i \in 1..Len(parts) |-> parts[i].text]) >>
    ELSE << >>

\* the last assistant message item before item j, 0 when there is none
LastAssistantBefore(j) ==
    LET earlier == { k \in 1..(j - 1) : IsAssistantMessage(InputItems[k]) }
    IN IF earlier = {} THEN 0 ELSE CHOOSE k \in earlier : \A l \in earlier : l <= k

RECURSIVE ReasoningBetween(_, _)
ReasoningBetween(lo, hi) ==
    IF lo > hi THEN << >>
    ELSE ReasoningOf(InputItems[lo]) \o ReasoningBetween(lo + 1, hi)

\* the reasoning texts pending when the message of item j is made
PendingReasoning(j) == ReasoningBetween(LastAssistantBefore(j) + 1, j)

ThinkPrefix(texts) ==
    <<"<","t","h","i","n","k",">">> \o JoinLines(texts) \o <<"<","/","t","h","i","n","k",">","\n">>

\* the text of a message content, and whether all of the content is text
OriginalText(content) ==
    IF content.k = "string" THEN content.s
    ELSE LET texts == SelectSeq(content.parts,
                                LAMBDA q : q.type_ \in {"input_text", "output_text"})
         IN JoinLines([i \in 1..Len(texts) |-> texts[i].text])

HasImage(content) ==
    content.k = "array" /\ \E i \in 1..Len(content.parts) : content.parts[i].type_ = "input_image"

ReasoningTexts == { <<"r">>, <<"s">>, <<"q">> }

MentionsReasoning(value) ==
    value.k = "string"
    /\ \/ Contains(value.s, <<"<","t","h","i","n","k",">">>)
       \/ \E t \in ReasoningTexts : Contains(value.s, t)

\* the message of item j is the pending reasoning in <think> tags followed
\* by all of the item's own content
PrefixedWithReasoning(j) ==
    LET content == Unwrap(InputItems[j].content)
        out == Unwrap(Messages[MessageOf(j)].content)
    IN /\ out = JsonStr(ThinkPrefix(PendingReasoning(j)) \o OriginalText(content))
       /\ ~HasImage(content)

\* C21: the reasoning texts pending at a message of role assistant are put in
\* <think> tags before that message's own content, which is kept, and the
\* pending list is cleared; a message of another role, and an assistant
\* message with nothing pending, carries no reasoning
C21_ReasoningPrepended ==
    (IsSome(chat_req) /\ IsSome(req.input)) =>
        \A j \in 1..Len(InputItems) :
            InputItems[j].type_ = "message" =>
                IF IsAssistantMessage(InputItems[j]) /\ PendingReasoning(j) # << >>
                THEN PrefixedWithReasoning(j)
                ELSE ~MentionsReasoning(Unwrap(Messages[MessageOf(j)].content))

\* extract_xml_tool_calls has been applied to a text made of segments
Extracted == IsSome(fn_out) /\ fn_in.f = "extract_xml_tool_calls"

Blocks == SelectSeq(fn_in.segs, LAMBDA g : IsSome(g.call))

\* C22: for a text with one or more well-formed blocks, closed by </function>
\* or by </tool_call>, extract_xml_tool_calls returns one call per block,
\* left to right, with the block's name and the JSON object of its trimmed
\* parameters, and the text without the blocks, trimmed
C22_OneCallPerBlock ==
    (Extracted /\ Blocks # << >>) =>
        /\ Unwrap(fn_out).result[2] = [i \in 1..Len(Blocks) |-> Unwrap(Blocks[i].call)]
        /\ Unwrap(fn_out).result[1] =
              Trim(TextOf(SelectSeq(fn_in.segs, LAMBDA g : g.call = None)))

\* two characters that are the same letter in either case, or the same character
SameIgnoringCase(a, b) ==
    \/ a = b
    \/ \E n \in 1..26 : {a, b} = {UpperCase[n], LowerCase[n]}

Markers == {TAG_FUNCTION, TAG_FUNCTION_END, TAG_TOOL_CALL, TAG_TOOL_CALL_END, TAG_PARAMETER}

\* the text has one of the five markers somewhere, in whatever case
HasMarker(text) ==
    \E m \in Markers : \E i \in 1..Len(text) :
        /\ i + Len(m) - 1 <= Len(text)
        /\ \A n \in 1..Len(m) : SameIgnoringCase(text[i + n - 1], m[n])

\* C23: a text is detected as XML tool-call syntax exactly when it has one
\* of the five markers, matched case-insensitively, and for a text without
\* any extract_xml_tool_calls returns the trimmed text and no call
C23_MarkerDetection ==
    Extracted =>
        /\ Unwrap(fn_out).detected <=> HasMarker(TextOf(fn_in.segs))
        /\ ~HasMarker(TextOf(fn_in.segs)) =>
              Unwrap(fn_out).result = <<Trim(TextOf(fn_in.segs)), << >> >>

C23_Witness ==
    /\ Extracted
    /\ fn_in.segs = << Segment(<<" ">>, None), Segment(<<"<","f","u","n","c","t","i","o","n">>, None) >>
    /\ ~Unwrap(fn_out).detected
    /\ Unwrap(fn_out).result = << <<"<","f","u","n","c","t","i","o","n">>, << >> >>

\* the parsed chunks without error that carry usage, by position in the body
UsagePositions ==
    { i \in 1..Len(body) :
        /\ body[i].data = "json"
        /\ body[i].chunk.error = None
        /\ IsSome(body[i].chunk.usage) }

LastUsage ==
    Unwrap(body[CHOOSE i \in UsagePositions : \A j \in UsagePositions : j <= i].chunk.usage)

CompletedUsage == Unwrap(Unwrap(Sent[Len(Sent)].response).usage)

\* C24: the token totals are those of the last parsed chunk without error
\* that carried usage, whatever its choices, an empty list included, and
\* response.completed reports them
C24_UsageLastWriteWins ==
    (Streaming /\ UsagePositions # {}) =>
        /\ st.total_input_tokens = Unwrap(LastUsage.prompt_tokens)
        /\ st.total_output_tokens = Unwrap(LastUsage.completion_tokens)
        /\ (Delivered /\ Sent[Len(Sent)].type_ = "response.completed") =>
               /\ CompletedUsage.input_tokens = Unwrap(LastUsage.prompt_tokens)
               /\ CompletedUsage.output_tokens = Unwrap(LastUsage.completion_tokens)

\* positions of the text deltas sent to the client
TextDeltas == { i \in 1..Len(Sent) : Sent[i].type_ = "response.output_text.delta" }

\* the streaming loop takes a content delta with which the accumulated text
\* has an opening <function= and no closing tag yet
ReadsIntoOpenCall ==
    /\ pc = "streaming"
    /\ Len(body') = Len(body) + 1
    /\ ContentTextOf(body'[Len(body')]) # << >>
    /\ Contains(st.accumulated_text \o ContentTextOf(body'[Len(body')]), TAG_FUNCTION)
    /\ ~Contains(st.accumulated_text \o ContentTextOf(body'[Len(body')]), TAG_FUNCTION_END)
    /\ ~Contains(st.accumulated_text \o ContentTextOf(body'[Len(body')]), TAG_TOOL_CALL_END)

\* C25: as soon as the accumulated text contains <function=, also when the
\* tag came in two deltas, the task is buffering, and until a closing tag
\* arrives no response.output_text.delta is emitted
C25_BufferingFromOpeningTag ==
    [][ReadsIntoOpenCall => (st'.xml_buffering /\ TextDeltas' = TextDeltas)]_vars

\* C26: the status of response.completed is the translation of the last
\* finish_reason received (stop, tool_calls, other -> completed; length ->
\* incomplete; content_filter -> failed), and in_progress when no chunk
\* carried a finish_reason or an error
C26_StatusIsTranslation ==
    (Streaming /\ Delivered /\ ~HasErrorChunk) =>
        LastResponse.status = translate_finish_reason(LastFinishReason)

\* C26 (amended): the status of response.completed is the translation of the
\* last finish_reason received, and completed, the value final_status is
\* declared with, when no chunk carried a finish_reason or an error
C26_LastFinishReasonOrCompleted ==
    (Streaming /\ Delivered /\ ~HasErrorChunk) =>
        LastResponse.status = IF FinishPositions = {} THEN "completed"
                              ELSE translate_finish_reason(LastFinishReason)

\* a stream of text that ends without any finish_reason
C26_Witness ==
    /\ Streaming /\ Delivered
    /\ body = <<P_Text, P_Done>>
    /\ Sent[Len(Sent)].type_ = "response.completed"
    /\ LastResponse.status = "completed"

\* an event that mentions a tool call other than its output_item.added
MentionsToolCall(e) ==
    \/ e.type_ = "response.function_call_arguments.delta"
    \/ e.type_ = "response.function_call_arguments.done"
    \/ /\ e.type_ = "response.output_item.done"
       /\ IsSome(e.item)
       /\ Unwrap(e.item).type_ = "function_call"

AddedBefore(i) ==
    \E j \in 1..(i - 1) :
        /\ Sent[j].type_ = "response.output_item.added"
        /\ Sent[j].output_index = Sent[i].output_index

\* C27: no function_call_arguments.delta, function_call_arguments.done or
\* output_item.done of a function call is sent for an output_index without an
\* earlier output_item.added for that output_index, also when the arguments
\* come before the name or the name never comes
C27_AddedBeforeMention ==
    Streaming => \A i \in 1..Len(Sent) : MentionsToolCall(Sent[i]) => AddedBefore(i)

\* the type of an event and, for an event of a tool call, its output_index
Kind(e) == [type_ |-> e.type_,
            output_index |-> IF MentionsToolCall(e) THEN e.output_index ELSE None]

KindsOf(events) == [i \in 1..Len(events) |-> Kind(events[i])]

Plain(type_) == [type_ |-> type_, output_index |-> None]

\* function_call_arguments.done then output_item.done for each index of S,
\* lowest index first
RECURSIVE ToolKinds(_)
ToolKinds(S) ==
    IF S = {} THEN << >>
    ELSE LET idx == CHOOSE m \in S : \A n \in S : m <= n
         IN << [type_ |-> "response.function_call_arguments.done", output_index |-> Some(idx + 1)],
               [type_ |-> "response.output_item.done", output_index |-> Some(idx + 1)] >>
            \o ToolKinds(S \ {idx})

\* what the claim lists for a task that leaves the loop in state stl
FinalKinds(stl) ==
    (IF stl.reasoning_started THEN << Plain("response.reasoning_text.done") >> ELSE << >>)
    \o (IF stl.accumulated_text # << >>
        THEN << Plain("response.output_text.done"), Plain("response.content_part.done"),
                Plain("response.output_item.done") >>
        ELSE << >>)
    \o ToolKinds(DOMAIN stl.tool_calls)
    \o << Plain("response.completed") >>

\* the task leaves the loop behind and every event it sends is delivered
FinalisesDelivered == pc = "finalise" /\ pc' = "done" /\ ~send_failed'

\* C28: the events sent after the streaming loop are, in this order,
\* reasoning_text.done iff reasoning started; output_text.done,
\* content_part.done and the message's output_item.done iff the text is not
\* empty; function_call_arguments.done then output_item.done for each tool
\* call in ascending index order; response.completed last
C28_FinalisationOrder ==
    [][FinalisesDelivered =>
          /\ Len(Sent') > Len(Sent)
          /\ SubSeq(Sent', 1, Len(Sent)) = Sent
          /\ KindsOf(SubSeq(Sent', Len(Sent) + 1, Len(Sent'))) = FinalKinds(st)]_vars

\* text and two tool calls that came highest index first
C28_Witness ==
    /\ Streaming /\ Delivered
    /\ body = <<P_Tool2, P_Tool, P_Text>>
    /\ KindsOf(SubSeq(Sent, Len(Sent) - 7, Len(Sent))) =
          << Plain("response.output_text.done"), Plain("response.content_part.done"),
             Plain("response.output_item.done"),
             [type_ |-> "response.function_call_arguments.done", output_index |-> Some(1)],
             [type_ |-> "response.output_item.done", output_index |-> Some(1)],
             [type_ |-> "response.function_call_arguments.done", output_index |-> Some(3)],
             [type_ |-> "response.output_item.done", output_index |-> Some(3)],
             Plain("response.completed") >>

\* the delta values of the function_call_arguments.delta events sent with
\* output_index x among the first n events, joined in emission order
RECURSIVE DeltasOf(_, _)
DeltasOf(x, n) ==
    IF n = 0 THEN << >>
    ELSE DeltasOf(x, n - 1)
         \o (IF /\ Sent[n].type_ = "response.function_call_arguments.delta"
                /\ Sent[n].output_index = x
             THEN Unwrap(Sent[n].delta) ELSE << >>)

\* the arguments an event closes a tool call with
ClosingArguments(e) ==
    IF e.type_ = "response.function_call_arguments.done" THEN e.arguments
    ELSE Unwrap(e.item).arguments

ClosesToolCall(e) ==
    \/ e.type_ = "response.function_call_arguments.done"
    \/ e.type_ = "response.output_item.done" /\ MentionsToolCall(e)

\* Sent[i] is the last event of its type for its output_index
IsLastOfItsKind(i) ==
    \A j \in (i + 1)..Len(Sent) :
        ~(Sent[j].type_ = Sent[i].type_ /\ Sent[j].output_index = Sent[i].output_index)

\* the events that close the native tool calls when the task is over
NativeClosings ==
    { i \in 1..Len(Sent) :
        /\ ClosesToolCall(Sent[i])
        /\ (Unwrap(Sent[i].output_index) - 1) \in native_indices
        /\ IsLastOfItsKind(i) }

\* C29: the arguments of the function_call_arguments.done and of the
\* output_item.done sent for a native tool call are the concatenation, in
\* emission order, of the delta values of the function_call_arguments.delta
\* events sent with that output_index
C29_ArgumentsAreDeltas ==
    (Streaming /\ Delivered) =>
        \A i \in NativeClosings :
            ClosingArguments(Sent[i]) = Some(DeltasOf(Sent[i].output_index, Len(Sent)))

\* the runs of a body with neighbours of one width joined, the marker apart
RECURSIVE Joined(_)
Joined(b) ==
    IF Len(b) < 2 THEN b
    ELSE IF /\ DOMAIN b[1] = DOMAIN b[2]
            /\ b[1].width = b[2].width
         THEN Joined(<< Run_(b[1].width, b[1].count + b[2].count) >> \o SubSeq(b, 3, Len(b)))
         ELSE << b[1] >> \o Joined(Tail(b))

RECURSIVE Concat(_)
Concat(chunks) == IF chunks = << >> THEN << >> ELSE Head(chunks) \o Concat(Tail(chunks))

BodyRead == IsSome(fn_out) /\ fn_in.f = "read_bounded_error"

UpstreamBody == Concat(fn_in.chunks)

\* C30: read_bounded_error returns the text of at most the first 10 KiB of
\* the body, and for a body longer than 10 KiB that text followed by
\* '... (truncated)', however the body is split into chunks
C30_TruncatedAtLimit ==
    BodyRead =>
        Joined(Unwrap(fn_out)) =
            IF ByteLen(UpstreamBody) > MAX_ERROR_BODY_SIZE
            THEN Append(Joined(TakeBytes(UpstreamBody, MAX_ERROR_BODY_SIZE)), TruncationMarker)
            ELSE Joined(UpstreamBody)

\* the text the claim recovers from a value: the string, the text field of a
\* text object, the newline-join of the non-empty texts of an array's parts
RECURSIVE Recovered(_)
Recovered(v) ==
    IF v.k = "string" THEN Some(v.s)
    ELSE IF v.k = "object"
    THEN (IF v.type_ \in {"text", "output_text"} THEN v.text ELSE None)
    ELSE IF v.k = "array"
    THEN LET all == [i \in 1..Len(v.items) |-> Recovered(v.items[i])]
             kept == SelectSeq(all, LAMBDA t : IsSome(t) /\ Unwrap(t) # << >>)
         IN IF kept = << >> THEN None
            ELSE Some(JoinLines([i \in 1..Len(kept) |-> Unwrap(kept[i])]))
    ELSE None

TextRecovered == IsSome(fn_out) /\ fn_in.f = "extract_text_delta"

\* C31: extract_text_delta gives a string itself, a text or output_text
\* object its text field, an array the newline-join of the non-empty texts
\* recovered from its parts, where an empty part adds nothing, and any other
\* value none
C31_TextRecovery ==
    TextRecovered => Unwrap(fn_out) = Recovered(fn_in.value)

ContentConverted == IsSome(fn_out) /\ fn_in.f = "convert_response_content"

PartsIn == fn_in.content.parts

HasImagePart == \E i \in 1..Len(PartsIn) : PartsIn[i].type_ = "input_image"

\* the texts of the input_text and output_text parts, in order
PartTexts ==
    LET texts == SelectSeq(PartsIn, LAMBDA q : q.type_ \in {"input_text", "output_text"})
    IN [i \in 1..Len(texts) |-> texts[i].text]

\* C32: a content array without an input_image part becomes one string, the
\* newline-join of its input_text and output_text parts without the reasoning
\* parts, also when it has no text part; an array with an input_image part
\* becomes the array form
C32_CollapseWithoutImages ==
    ContentConverted =>
        IF HasImagePart
        THEN Unwrap(fn_out)[1].k = "array"
        ELSE Unwrap(fn_out)[1] = JsonStr(JoinLines(PartTexts))

\* the request has passed the circuit-breaker gate
Admitted == pc # "start" /\ PreGateCheck(req) = None /\ http # CircuitOpenResponse

\* the record_success() and record_failure() calls made on the breaker
Records == Count(cb_log, "record_failure") + Count(cb_log, "record_success")

\* C33: a request admitted by the gate leads in the end to exactly one
\* record_success() or record_failure() on the breaker, also when a check
\* after the gate rejects it
C33_AdmittedResolves ==
    /\ Admitted ~> (Records = 1)
    /\ [](Records <= 1)

\* every function_call_output item comes after a function_call item with
\* its call_id
CallsPrecedeOutputs ==
    \A j \in 1..Len(InputItems) :
        InputItems[j].type_ = "function_call_output" =>
            \E i \in 1..(j - 1) :
                /\ InputItems[i].type_ = "function_call"
                /\ InputItems[i].call_id = InputItems[j].call_id

\* an assistant message before position m whose tool_calls has a call of
\* this id
AnnouncedBefore(m, id) ==
    \E k \in 1..(m - 1) :
        /\ Messages[k].role = "assistant"
        /\ IsSome(Messages[k].tool_calls)
        /\ \E n \in 1..Len(Unwrap(Messages[k].tool_calls)) :
              Unwrap(Messages[k].tool_calls)[n].id = id

\* C34: when every function_call item precedes its function_call_output item,
\* every message of role tool with tool_call_id X comes after an assistant
\* message whose tool_calls has a call with id X
C34_ToolAfterAssistant ==
    (IsSome(chat_req) /\ IsSome(req.input) /\ CallsPrecedeOutputs) =>
        \A m \in 1..Len(Messages) :
            Messages[m].role = "tool" =>
                AnnouncedBefore(m, Unwrap(Messages[m].tool_call_id))

\* the delta values of the response.output_text.delta events among the first
\* n events sent, joined in emission order
RECURSIVE TextDeltasUpTo(_)
TextDeltasUpTo(n) ==
    IF n = 0 THEN << >>
    ELSE TextDeltasUpTo(n - 1)
         \o (IF Sent[n].type_ = "response.output_text.delta"
             THEN Unwrap(Sent[n].delta) ELSE << >>)

\* C35: the text of response.output_text.done is the concatenation, in
\* emission order, of the delta values of the response.output_text.delta
\* events sent before it, also across XML buffering, XML extraction and the
\* suppression of duplicate deltas
C35_TextDoneIsDeltas ==
    Streaming =>
        \A i \in 1..Len(Sent) :
            Sent[i].type_ = "response.output_text.done" =>
                Sent[i].text = Some(TextDeltasUpTo(i))

\* the events of a type sent for an output_index
EventsFor(type_, output_index) ==
    { i \in 1..Len(Sent) : Sent[i].type_ = type_ /\ Sent[i].output_index = Some(output_index) }

\* C36: when the task is over and every send succeeded, each tool call of the
\* response, native or salvaged from XML, has had exactly one
\* function_call_arguments.done and exactly one output_item.done for its
\* output_index
C36_ClosedExactlyOnce ==
    (Streaming /\ Delivered) =>
        \A idx \in DOMAIN st.tool_calls :
            /\ Cardinality(EventsFor("response.function_call_arguments.done", idx + 1)) = 1
            /\ Cardinality(EventsFor("response.output_item.done", idx + 1)) = 1

\* the upstream failures whose handlers have returned: their record tasks
\* have run or are waiting to run
FailuresReturned == Count(cb_log, "record_failure") + cb_tasks.failure

\* no request has succeeded and no cooldown has run out
OnlyFailures ==
    /\ Count(cb_log, "record_success") = 0
    /\ cb_tasks.success = 0
    /\ Count(cb_log, "cooldown") = 0

\* C37: once the handlers of failure_threshold consecutive upstream failures
\* have returned, with no success and within the cooldown, the gate rejects
\* every request, wherever the spawned record tasks are
C37_VisibleOnReturn ==
    (cb.enabled /\ OnlyFailures /\ FailuresReturned >= FailureThreshold) =>
        ~should_allow_request(cb).allow

\* an event of a tool call: its output_item.added or a later mention
OfToolCall(e) ==
    \/ MentionsToolCall(e)
    \/ /\ e.type_ = "response.output_item.added"
       /\ IsSome(e.item)
       /\ Unwrap(e.item).type_ = "function_call"

\* C38: all events sent for one tool call (the same output_index) carry the
\* same item_id and the same call_id, also when the backend gives the call id
\* in a later delta than the function name
C38_OneIdPerCall ==
    Streaming =>
        \A i, j \in 1..Len(Sent) :
            (/\ OfToolCall(Sent[i]) /\ OfToolCall(Sent[j])
             /\ Sent[i].output_index = Sent[j].output_index) =>
                /\ Sent[i].item_id = Sent[j].item_id
                /\ Sent[i].call_id = Sent[j].call_id

\* the item of the output array at a 0-based position, if there is one
OutputAt(output, position) ==
    IF position + 1 \in DOMAIN output THEN Some(output[position + 1]) ELSE None

\* C39: in response.completed the position of each item in the output array
\* is the output_index of its streamed events: the message item is output[0]
\* and the item closed by an output_item.done with output_index k is
\* output[k], also with a reasoning item or tool-call indices that are not
\* contiguous
C39_PositionIsOutputIndex ==
    (Streaming /\ Delivered /\ Sent[Len(Sent)].type_ = "response.completed") =>
        /\ OutputAt(LastResponse.output, 0) # None
        /\ Unwrap(OutputAt(LastResponse.output, 0)).type_ = "message"
        /\ \A i \in 1..Len(Sent) :
              Sent[i].type_ = "response.output_item.done" =>
                  /\ OutputAt(LastResponse.output, Unwrap(Sent[i].output_index)) # None
                  /\ Unwrap(OutputAt(LastResponse.output, Unwrap(Sent[i].output_index))).id
                        = Unwrap(Sent[i].item).id

\* the tool-call deltas of a payload
ToolCallsOf(p) ==
    IF /\ p.data = "json"
       /\ p.chunk.error = None
       /\ p.chunk.choices # << >>
       /\ IsSome(p.chunk.choices[1].delta)
    THEN UnwrapOr(Unwrap(p.chunk.choices[1].delta).tool_calls, << >>)
    ELSE << >>

\* how many tool-call deltas of the payloads read carry arguments
RECURSIVE ArgumentDeltasIn(_)
ArgumentDeltasIn(payloads) ==
    IF payloads = << >> THEN 0
    ELSE Cardinality({ k \in DOMAIN ToolCallsOf(Head(payloads)) :
                          /\ IsSome(ToolCallsOf(Head(payloads))[k].function)
                          /\ IsSome(Unwrap(ToolCallsOf(Head(payloads))[k].function).arguments) })
         + ArgumentDeltasIn(Tail(payloads))

\* C40: the tool_calls of every delta read are applied and their events
\* sent, whatever happens to the content of the same delta: each tool-call
\* delta with arguments has its function_call_arguments.delta
C40_ToolCallsAlwaysApplied ==
    (Streaming /\ Delivered) =>
        Cardinality({ i \in 1..Len(Sent) :
                        Sent[i].type_ = "response.function_call_arguments.delta" })
            = ArgumentDeltasIn(body)

====
